---- MODULE Spec2Model ----
(***************************************************************************)
(* A model of the indexed track collections of music-tools: the Playlist   *)
(* and Playcount implementations of the TracksFile trait (an ordered       *)
(* sequence of records plus the tracks_map index from each track to the    *)
(* positions it occupies), together with their backing text file.          *)
(*                                                                         *)
(* Positions are 0-based as in the source; the element at position i of a  *)
(* Vec is element i + 1 of the TLA+ sequence that models it.               *)
(***************************************************************************)
EXTENDS Integers, Sequences, FiniteSets, TLC

VARIABLES
    kind,         \* which implementation of TracksFile the object is
    tracks,       \* Playlist::tracks (stays empty for a Playcount)
    entries,      \* Playcount::entries (stays empty for a Playlist)
    tracks_map,   \* tracks_map of the object: track -> positions
    is_modified,  \* is_modified of the object
    panicked,     \* an assert!, unwrap or index of the call panicked
    integrity_ok, \* no debug_assert!(verify_integrity()) has failed so far
    file,         \* the backing file at self.path: NoFile or its lines
    changed,      \* some call changed the sequence since the last load or write
    call,         \* the last call made on the object, with its arguments
    ret,          \* what that call returned
    playlists,    \* plfix: the Vec<Playlist> that main collects
    playcounts,   \* plfix: the Vec<Playcount> that main collects
    pretend,      \* plfix: cli.pretend
    run,          \* plfix: where main is, and what it holds besides the collections
    picker        \* the TuiPickerState of a picker program

vars == <<kind, tracks, entries, tracks_map, is_modified, panicked,
          integrity_ok, file, changed, call, ret, playlists, playcounts, pretend,
          run, picker>>

\* the fields of the object
object == <<tracks, entries, tracks_map, is_modified, panicked, integrity_ok>>

\* the state of the programs: plfix and the picker
tool == <<playlists, playcounts, pretend, run, picker>>

-----------------------------------------------------------------------------
(* Bounds of the exploration.                                              *)

\* Spec: push is not offered once the sequence holds MaxLen records
MaxLen == 2
\* SpecCalls: the same, for the calls that leave the file alone
MaxCallsLen == 5
\* SpecRename: the same, for push and bulk_rename
MaxRenameLen == 2

\* SpecMerge: the longest playcount that merge_duplicates is given
MaxMergeLen == 5

\* SpecFix: the longest playlist or playcount that plfix opens
MaxFixLen == 2

\* SpecPicker: the number of lines of the longest mappings file
MaxPickerLen == 2
\* SpecPicker: scrolling down is not offered beyond this scroll_amount
MaxScroll == 1

\* the most lines of a playlist or playcount file of a run of plfix
MaxRunLen == 2

\* the most invalid tracks that ask_resolve_invalid_paths is given
MaxAskLen == 2

\* SpecLoop: the most iterations of a main loop
MaxIterations == 3

-----------------------------------------------------------------------------
(* Generic helpers.                                                        *)

Range(s) == {s[i] : i \in 1..Len(s)}

Min(S) == CHOOSE x \in S : \A y \in S : x <= y

Max(S) == CHOOSE x \in S : \A y \in S : x >= y

\* the sequence s without its element number k (1-based): Vec::remove(k - 1)
RemoveNth(s, k) == SubSeq(s, 1, k - 1) \o SubSeq(s, k + 1, Len(s))

Reverse(s) == [i \in 1..Len(s) |-> s[Len(s) + 1 - i]]

\* sort_unstable on a Vec<usize>
RECURSIVE SortAsc(_)
SortAsc(s) ==
    IF s = <<>> THEN <<>>
    ELSE LET m == Min(Range(s))
             k == Min({i \in 1..Len(s) : s[i] = m})
         IN <<m>> \o SortAsc(RemoveNth(s, k))

\* every order in which a HashMap may iterate over the keys S
Orders(S) ==
    {o \in [1..Cardinality(S) -> S] : \A i, j \in 1..Cardinality(S) : i # j => o[i] # o[j]}

EmptyMap == [t \in {} |-> <<>>]

\* HashMap::remove
MapRemove(m, key) == [t \in (DOMAIN m) \ {key} |-> m[t]]

\* push `pos` on the position list of `track`, inserting the list if absent
MapPush(m, track, pos) ==
    IF track \in DOMAIN m
    THEN [m EXCEPT ![track] = Append(m[track], pos)]
    ELSE m @@ (track :> <<pos>>)

-----------------------------------------------------------------------------
(* Paths and tracks.  A path is the sequence of its components, which is   *)
(* what equality and hashing of Utf8PathBuf compare; the empty sequence is *)
(* the empty path.                                                         *)

music_dir == <<"/", "M">>

starts_with(p, base) == Len(p) >= Len(base) /\ SubSeq(p, 1, Len(base)) = base

strip_prefix(p, base) == SubSeq(p, Len(base) + 1, Len(p))

Track_new(fpath) ==
    [path |-> IF starts_with(fpath, music_dir) THEN strip_prefix(fpath, music_dir) ELSE fpath]

\* the paths that callers pass and that lines of a playlist file hold
FPaths == { <<>>, <<"a">>, <<"b">>, <<"/", "M", "a">> }

\* the tracks the model passes to remove_last and remove_all
Tracks == {[path |-> p] : p \in FPaths}

\* the tracks the model uses as the keys of the edits of bulk_rename
EditTracks == {[path |-> <<>>], [path |-> <<"a">>], [path |-> <<"b">>]}

-----------------------------------------------------------------------------
(* The backing file.                                                       *)

\* no file lies at the path
NoFile == [exists |-> FALSE, lines |-> <<>>]

\* a file holding these lines, as BufRead::lines yields them
File(lines) == [exists |-> TRUE, lines |-> lines]

\* stands for a line that is not valid UTF-8: BufRead::lines yields Err for it
InvalidUtf8 == <<"InvalidUtf8">>

\* File::open succeeds and BufRead::lines yields Ok for every line
CanBeRead(f) == f.exists /\ InvalidUtf8 \notin Range(f.lines)

\* the lines that BufRead::lines yields before its first Err
RECURSIVE LinesBeforeErr(_)
LinesBeforeErr(lines) ==
    IF lines = <<>> \/ Head(lines) = InvalidUtf8 THEN <<>>
    ELSE <<Head(lines)>> \o LinesBeforeErr(Tail(lines))

-----------------------------------------------------------------------------
(* Playlist (src/playlist/mod.rs).  An object is the record of its fields  *)
(* tracks, tracks_map and is_modified, with the two flags of the model.    *)

Playlist_new ==
    [tracks |-> <<>>, tracks_map |-> EmptyMap, is_modified |-> FALSE,
     panicked |-> FALSE, integrity_ok |-> TRUE]

Playlist_verify_integrity(self) ==
    /\ \A i \in 0..(Len(self.tracks) - 1) :
          /\ self.tracks[i + 1] \in DOMAIN self.tracks_map
          /\ i \in Range(self.tracks_map[self.tracks[i + 1]])
    /\ \A track \in DOMAIN self.tracks_map :
          /\ self.tracks_map[track] # <<>>
          /\ \A i \in Range(self.tracks_map[track]) :
                i < Len(self.tracks) /\ self.tracks[i + 1] = track

\* debug_assert!(self.verify_integrity())
Playlist_debug_assert(self) ==
    [self EXCEPT !.integrity_ok = self.integrity_ok /\ Playlist_verify_integrity(self)]

Playlist_rebuild_tracks_map(self) ==
    LET RECURSIVE Build(_, _)
        Build(m, i) ==
            IF i >= Len(self.tracks) THEN m
            ELSE Build(MapPush(m, self.tracks[i + 1], i), i + 1)
    IN Playlist_debug_assert([self EXCEPT !.tracks_map = Build(EmptyMap, 0)])

\* a push that puts the position at the front of the track's list
Playlist_push_track_position_first(self, track) ==
    Playlist_debug_assert(
        [self EXCEPT !.tracks_map =
                         IF track \in DOMAIN self.tracks_map
                         THEN [self.tracks_map EXCEPT
                                  ![track] = <<Len(self.tracks)>> \o self.tracks_map[track]]
                         ELSE self.tracks_map @@ (track :> <<Len(self.tracks)>>),
                     !.tracks = Append(self.tracks, track),
                     !.is_modified = TRUE])

Playlist_push_track(self, track) ==
    Playlist_debug_assert(
        [self EXCEPT !.tracks_map = MapPush(self.tracks_map, track, Len(self.tracks)),
                     !.tracks = Append(self.tracks, track),
                     !.is_modified = TRUE])

Playlist_push(self, fpath) == Playlist_push_track(self, Track_new(fpath))

Playlist_contains(self, track) == track \in DOMAIN self.tracks_map

\* remove_at without the pass that shifts the higher positions down
Playlist_remove_at_no_shift(self, index) ==
    IF self.panicked \/ index >= Len(self.tracks) THEN self
    ELSE LET track == self.tracks[index + 1]
             list1 == SelectSeq(self.tracks_map[track], LAMBDA x : x # index)
         IN Playlist_debug_assert(
                [self EXCEPT !.tracks = RemoveNth(self.tracks, index + 1),
                             !.tracks_map = IF list1 = <<>>
                                            THEN MapRemove(self.tracks_map, track)
                                            ELSE [self.tracks_map EXCEPT ![track] = list1],
                             !.is_modified = TRUE])

Playlist_remove_at(self, index) ==
    IF self.panicked \/ index >= Len(self.tracks) THEN self
    ELSE LET track == self.tracks[index + 1]
         IN IF track \notin DOMAIN self.tracks_map
            THEN [self EXCEPT !.panicked = TRUE]
            ELSE
            LET list == self.tracks_map[track]
                hits == {k \in 1..Len(list) : list[k] = index}
            IN IF hits = {}
               THEN [self EXCEPT !.panicked = TRUE]
               ELSE
               LET map_index == Min(hits)
                   list1 == RemoveNth(list, map_index)
                   map1 == IF list1 = <<>>
                           THEN MapRemove(self.tracks_map, track)
                           ELSE [self.tracks_map EXCEPT ![track] = list1]
                   tracks1 == RemoveNth(self.tracks, index + 1)
                   shifted == [t \in DOMAIN map1 |->
                                [k \in 1..Len(map1[t]) |->
                                    IF map1[t][k] > index THEN map1[t][k] - 1
                                    ELSE map1[t][k]]]
               IN IF \E t \in DOMAIN map1 : index \in Range(map1[t])
                  THEN [self EXCEPT !.tracks = tracks1, !.tracks_map = map1,
                                    !.panicked = TRUE]
                  ELSE Playlist_debug_assert(
                           [self EXCEPT !.tracks = tracks1, !.tracks_map = shifted,
                                        !.is_modified = TRUE])

\* for x in indices { self.remove_at(x) }
RECURSIVE Playlist_remove_each(_, _)
Playlist_remove_each(self, indices) ==
    IF indices = <<>> THEN self
    ELSE Playlist_remove_each(Playlist_remove_at(self, Head(indices)), Tail(indices))

\* remove_last that removes the lowest position of the track
Playlist_remove_last_lowest(self, track) ==
    IF ~Playlist_contains(self, track) THEN [self |-> self, found |-> FALSE]
    ELSE [self |-> Playlist_remove_at(self, Min(Range(self.tracks_map[track]))),
          found |-> TRUE]

\* the object after the call, and the value returned
Playlist_remove_last(self, track) ==
    IF ~Playlist_contains(self, track) THEN [self |-> self, found |-> FALSE]
    ELSE LET index == Max(Range(self.tracks_map[track]))
             after == Playlist_remove_at(self, index)
         IN [self |-> IF after.panicked THEN after ELSE [after EXCEPT !.is_modified = TRUE],
             found |-> TRUE]

\* remove_all that removes the positions in ascending order
Playlist_remove_all_ascending(self, track) ==
    IF ~Playlist_contains(self, track) THEN [self |-> self, n |-> 0]
    ELSE LET indices == SortAsc(self.tracks_map[track])
             after == Playlist_remove_each(self, indices)
         IN [self |-> IF after.panicked THEN after ELSE [after EXCEPT !.is_modified = TRUE],
             n |-> Len(indices)]

Playlist_remove_all(self, track) ==
    IF ~Playlist_contains(self, track) THEN [self |-> self, n |-> 0]
    ELSE LET indices == SortAsc(self.tracks_map[track])
             after == Playlist_remove_each(self, Reverse(indices))
         IN [self |-> IF after.panicked THEN after ELSE [after EXCEPT !.is_modified = TRUE],
             n |-> Len(indices)]

\* remove_duplicates that removes one duplicate of each track, its last
Playlist_remove_duplicates_one_each(self, order) ==
    LET indices == {Max(Range(self.tracks_map[t])) :
                       t \in {u \in DOMAIN self.tracks_map : Len(self.tracks_map[u]) > 1}}
        kept == SelectSeq([i \in 1..Len(self.tracks) |-> i], LAMBDA i : (i - 1) \notin indices)
    IN [self |-> IF indices = {} THEN self
                 ELSE Playlist_rebuild_tracks_map(
                          [self EXCEPT !.tracks = [k \in 1..Len(kept) |-> self.tracks[kept[k]]],
                                       !.is_modified = TRUE]),
        n |-> Cardinality(indices)]

\* remove_duplicates that does not sort the positions it collected
Playlist_remove_duplicates_unsorted(self, order) ==
    LET RECURSIVE Collect(_, _)
        Collect(k, indices) ==
            IF k > Len(order) THEN indices
            ELSE LET pos == self.tracks_map[order[k]]
                 IN Collect(k + 1, IF Len(pos) > 1 THEN indices \o Tail(pos) ELSE indices)
        indices == Collect(1, <<>>)
        after == IF indices # <<>>
                 THEN [Playlist_remove_each(self, Reverse(indices)) EXCEPT !.is_modified = TRUE]
                 ELSE self
    IN [self |-> after, n |-> Len(indices)]

\* `order` is the order in which tracks_map.values() yields the lists
Playlist_remove_duplicates(self, order) ==
    LET RECURSIVE Collect(_, _)
        Collect(k, indices) ==
            IF k > Len(order) THEN indices
            ELSE LET pos == self.tracks_map[order[k]]
                 IN Collect(k + 1, IF Len(pos) > 1 THEN indices \o Tail(pos) ELSE indices)
        indices == Collect(1, <<>>)
        n_duplicates == Len(indices)
        after == IF indices # <<>>
                 THEN LET removed == Playlist_remove_each(self, Reverse(SortAsc(indices)))
                      IN IF removed.panicked THEN removed
                         ELSE [removed EXCEPT !.is_modified = TRUE]
                 ELSE self
    IN [self |-> IF after.panicked THEN after ELSE Playlist_debug_assert(after),
        n |-> n_duplicates]

\* bulk_rename that stops after the first edit whose track is present
Playlist_bulk_rename_first_only(self, edits, order) ==
    LET present == SelectSeq(order, LAMBDA t : t \in DOMAIN self.tracks_map)
    IN IF present = <<>> THEN [self |-> Playlist_rebuild_tracks_map(self), n |-> 0]
       ELSE LET idx == Range(self.tracks_map[present[1]])
                renamed == [i \in 1..Len(self.tracks) |->
                               IF (i - 1) \in idx THEN [path |-> edits[present[1]]]
                               ELSE self.tracks[i]]
            IN [self |-> Playlist_rebuild_tracks_map(
                             [self EXCEPT !.tracks = renamed, !.is_modified = TRUE]),
                n |-> Cardinality(idx)]

\* bulk_rename that counts one per edit applied, not one per occurrence
Playlist_bulk_rename_counts_edits(self, edits, order) ==
    LET RECURSIVE Loop(_, _, _)
        Loop(k, s, n_changed) ==
            IF k > Len(order) THEN [self |-> Playlist_rebuild_tracks_map(s), n |-> n_changed]
            ELSE IF order[k] \notin DOMAIN s.tracks_map THEN Loop(k + 1, s, n_changed)
            ELSE LET idx == Range(s.tracks_map[order[k]])
                     renamed == [i \in 1..Len(s.tracks) |->
                                    IF (i - 1) \in idx THEN [path |-> edits[order[k]]]
                                    ELSE s.tracks[i]]
                 IN Loop(k + 1, [s EXCEPT !.tracks = renamed, !.is_modified = TRUE],
                         n_changed + 1)
    IN Loop(1, self, 0)

\* bulk_rename that rebuilds the index after each edit, so that a later edit
\* sees the tracks an earlier one has renamed
Playlist_bulk_rename_cascading(self, edits, order) ==
    LET RECURSIVE Loop(_, _, _)
        Loop(k, s, n_changed) ==
            IF k > Len(order) THEN [self |-> s, n |-> n_changed]
            ELSE LET target_track == order[k]
                     new_path == edits[target_track]
                 IN IF target_track \notin DOMAIN s.tracks_map
                    THEN Loop(k + 1, s, n_changed)
                    ELSE LET idx == Range(s.tracks_map[target_track])
                             renamed == [i \in 1..Len(s.tracks) |->
                                            IF (i - 1) \in idx THEN [path |-> new_path]
                                            ELSE s.tracks[i]]
                         IN Loop(k + 1,
                                 Playlist_rebuild_tracks_map(
                                     [s EXCEPT !.tracks = renamed, !.is_modified = TRUE]),
                                 n_changed + Len(s.tracks_map[target_track]))
    IN Loop(1, self, 0)

\* `order` is the order in which the HashMap `edits` is iterated
Playlist_bulk_rename(self, edits, order) ==
    LET RECURSIVE Loop(_, _, _)
        Loop(k, s, n_changed) ==
            IF k > Len(order) THEN [self |-> s, n |-> n_changed]
            ELSE LET target_track == order[k]
                     new_path == edits[target_track]
                 IN IF target_track \notin DOMAIN s.tracks_map
                    THEN Loop(k + 1, s, n_changed)
                    ELSE LET idx == Range(s.tracks_map[target_track])
                             bad == \E i \in idx : i >= Len(s.tracks)
                             renamed == [i \in 1..Len(s.tracks) |->
                                            IF (i - 1) \in idx THEN [path |-> new_path]
                                            ELSE s.tracks[i]]
                         IN IF bad THEN [self |-> [s EXCEPT !.panicked = TRUE], n |-> n_changed]
                            ELSE Loop(k + 1,
                                      [s EXCEPT !.tracks = renamed, !.is_modified = TRUE],
                                      n_changed + Len(s.tracks_map[target_track]))
        done == Loop(1, self, 0)
    IN IF done.self.panicked THEN done
       ELSE [self |-> Playlist_rebuild_tracks_map(done.self), n |-> done.n]

\* the lines that write() puts in the file
Playlist_lines(self) == [i \in 1..Len(self.tracks) |-> self.tracks[i].path]

\* reload() on a file that exists and whose lines are all valid UTF-8
Playlist_load(self, lines) ==
    LET RECURSIVE Read(_, _, _)
        Read(k, tracks_new, tracks_map_new) ==
            IF k > Len(lines) THEN [tracks |-> tracks_new, tracks_map |-> tracks_map_new]
            ELSE LET track == Track_new(lines[k])
                 IN Read(k + 1, Append(tracks_new, track),
                         MapPush(tracks_map_new, track, Len(tracks_new)))
        read == Read(1, <<>>, EmptyMap)
        single_empty == Len(read.tracks) = 1 /\ read.tracks[1].path = <<>>
    IN Playlist_debug_assert(
           [self EXCEPT !.tracks = IF single_empty THEN <<>> ELSE read.tracks,
                        !.tracks_map = IF single_empty THEN EmptyMap ELSE read.tracks_map,
                        !.is_modified = FALSE])

\* a reload that reads into self: the lines read before the failure stay
Playlist_reload_in_place(self, f) ==
    IF ~f.exists THEN [self |-> self, ok |-> FALSE]
    ELSE [self |-> Playlist_load(self, LinesBeforeErr(f.lines)), ok |-> CanBeRead(f)]

\* Playlist::reload on the file f: File::open fails on a missing file, and a
\* line that is not UTF-8 makes the loop return Err; in both cases nothing
\* is assigned
Playlist_reload(self, f) ==
    IF CanBeRead(f) THEN [self |-> Playlist_load(self, f.lines), ok |-> TRUE]
    ELSE [self |-> self, ok |-> FALSE]

-----------------------------------------------------------------------------
(* Playcount entries (src/playcount/entry.rs).  An Option is None or       *)
(* Some(x).  A Duration is [secs, nanos].  An f32 is modelled for values   *)
(* in [1, 2), where it is m * 2^-23 for an integer m in [2^23, 2^24); the  *)
(* model keeps m.  The decimal text Rust prints for an f32 parses back to  *)
(* the same f32, so the text of a number is modelled by that m; a text     *)
(* that is no number is modelled by NotANumber.                            *)

None == <<>>

Some(x) == <<x>>

is_none(o) == o = <<>>

unwrap(o) == o[1]

unwrap_or(o, default) == IF is_none(o) THEN default ELSE o[1]

NotANumber == 0 - 1

\* n / d rounded to the nearest integer, ties to even (n >= 0, d > 0)
RoundDiv(n, d) ==
    LET q == n \div d
        r == n % d
    IN IF 2 * r > d \/ (2 * r = d /\ q % 2 = 1) THEN q + 1 ELSE q

\* Duration::as_secs_f32 for a duration in [1 s, 2 s): secs + nanos / 1e9,
\* in units of 2^-23 (2^23 / 10^9 = 16384 / 1953125)
as_secs_f32(duration) ==
    (2 ^ 23) * duration.secs + RoundDiv(duration.nanos * 16384, 1953125)

\* the f32 nearest to the non-negative integer p
RoundToF32(p) ==
    LET RECURSIVE Shift(_)
        Shift(x) == IF x < 2 ^ 24 THEN 0 ELSE 1 + Shift(x \div 2)
        e == Shift(p)
    IN RoundDiv(p, 2 ^ e) * (2 ^ e)

\* Duration::new(duration as u64, ((duration - duration.floor()) * 1e9) as u32)
\* for the f32 m * 2^-23 in [1, 2): the fraction times 1e9 is rounded to f32
\* and then truncated
duration_from_f32(m) ==
    [secs |-> m \div (2 ^ 23),
     nanos |-> RoundToF32((m % (2 ^ 23)) * 1953125) \div 16384]

\* the audio files of the library, as found from the working directory,
\* which is the music directory; the empty path names no file
AudioFile(fpath) ==
    IF fpath = <<"a">> \/ fpath = <<"/", "M", "a">> THEN "a"
    ELSE IF fpath = <<"b">> \/ fpath = <<"/", "M", "b">> THEN "b"
    ELSE "none"

\* Tag::read_from_path: the ID3v2 frames of the file
Tag_read_from_path(fpath) ==
    CASE AudioFile(fpath) = "a" ->
            [ok |-> TRUE, artist |-> Some("x"), album_artist |-> None,
             album |-> Some("l"), title |-> Some("s")]
      [] AudioFile(fpath) = "b" ->
            [ok |-> TRUE, artist |-> Some("y"), album_artist |-> Some("v"),
             album |-> None, title |-> Some("t")]
      [] OTHER -> [ok |-> FALSE]

\* compute_duration: what soxi -D reports (1.000120 for file a, 1.000000 for
\* file b), parsed as f64 and made a Duration
compute_duration(fpath) ==
    CASE AudioFile(fpath) = "a" -> [ok |-> TRUE, val |-> [secs |-> 1, nanos |-> 119999]]
      [] AudioFile(fpath) = "b" -> [ok |-> TRUE, val |-> [secs |-> 1, nanos |-> 0]]
      [] OTHER -> [ok |-> FALSE]

\* Entry::new: [ok |-> FALSE] or [ok |-> TRUE, entry |-> the entry]
Entry_new(fpath, duration, artist, album_artist, album, title) ==
    LET measured == IF is_none(duration) THEN compute_duration(fpath)
                    ELSE [ok |-> TRUE, val |-> unwrap(duration)]
        need_tag == is_none(artist) \/ is_none(album_artist) \/ is_none(album)
                        \/ is_none(title)
        tag == IF need_tag THEN Tag_read_from_path(fpath) ELSE [ok |-> TRUE]
    IN IF ~measured.ok THEN [ok |-> FALSE]
       ELSE IF ~tag.ok THEN [ok |-> FALSE]
       ELSE IF is_none(artist) /\ is_none(tag.artist) THEN [ok |-> FALSE]
       ELSE IF is_none(title) /\ is_none(tag.title) THEN [ok |-> FALSE]
       ELSE [ok |-> TRUE,
             entry |->
                [track |-> Track_new(fpath),
                 duration |-> measured.val,
                 artist |-> IF is_none(artist) THEN unwrap(tag.artist) ELSE unwrap(artist),
                 album_artist |-> IF is_none(album_artist) THEN tag.album_artist
                                  ELSE unwrap(album_artist),
                 album |-> IF is_none(album) THEN tag.album ELSE unwrap(album),
                 title |-> IF is_none(title) THEN unwrap(tag.title) ELSE unwrap(title)]]

\* Entry::as_file_line: the six tab-separated fields of the line
as_file_line(entry) ==
    << as_secs_f32(entry.duration), entry.artist, unwrap_or(entry.album_artist, ""),
       unwrap_or(entry.album, ""), entry.title, entry.track.path >>

\* Entry::from_str on a line given as its tab-separated fields
Entry_from_str(line) ==
    IF Len(line) < 6 THEN [ok |-> FALSE]
    ELSE IF line[1] = NotANumber THEN [ok |-> FALSE]
    ELSE Entry_new(line[6], Some(duration_from_f32(line[1])), Some(line[2]),
                   Some(IF line[3] = "" THEN None ELSE Some(line[3])),
                   Some(IF line[4] = "" THEN None ELSE Some(line[4])),
                   Some(line[5]))

-----------------------------------------------------------------------------
(* Playcount (src/playcount/mod.rs).  An object is the record of its       *)
(* fields entries, tracks_map and is_modified, with the two flags of the   *)
(* model.                                                                  *)

Playcount_new ==
    [entries |-> <<>>, tracks_map |-> EmptyMap, is_modified |-> FALSE,
     panicked |-> FALSE, integrity_ok |-> TRUE]

Playcount_verify_integrity(self) ==
    /\ \A i \in 0..(Len(self.entries) - 1) :
          /\ self.entries[i + 1].track \in DOMAIN self.tracks_map
          /\ i \in Range(self.tracks_map[self.entries[i + 1].track])
    /\ \A track \in DOMAIN self.tracks_map :
          /\ self.tracks_map[track] # <<>>
          /\ \A i \in Range(self.tracks_map[track]) :
                i < Len(self.entries) /\ self.entries[i + 1].track = track

\* debug_assert!(self.verify_integrity())
Playcount_debug_assert(self) ==
    [self EXCEPT !.integrity_ok = self.integrity_ok /\ Playcount_verify_integrity(self)]

Playcount_rebuild_tracks_map(self) ==
    LET RECURSIVE Build(_, _)
        Build(m, i) ==
            IF i >= Len(self.entries) THEN m
            ELSE Build(MapPush(m, self.entries[i + 1].track, i), i + 1)
    IN Playcount_debug_assert([self EXCEPT !.tracks_map = Build(EmptyMap, 0)])

\* the object after the call, and whether the call returned Ok
Playcount_push(self, fpath) ==
    LET made == Entry_new(fpath, None, None, None, None, None)
    IN IF ~made.ok THEN [self |-> self, ok |-> FALSE]
       ELSE [self |-> Playcount_debug_assert(
                          [self EXCEPT !.tracks_map = MapPush(self.tracks_map, made.entry.track,
                                                              Len(self.entries)),
                                       !.entries = Append(self.entries, made.entry),
                                       !.is_modified = TRUE]),
             ok |-> TRUE]

Playcount_contains(self, track) == track \in DOMAIN self.tracks_map

\* remove_at that takes the first position of the track out of its list,
\* whichever position is removed from the sequence
\* remove_at without the bounds check: indexing the Vec out of range panics
Playcount_remove_at_unchecked(self, index) ==
    IF self.panicked THEN self
    ELSE IF index >= Len(self.entries) THEN [self EXCEPT !.panicked = TRUE]
    ELSE LET track == self.entries[index + 1].track
         IN Playcount_rebuild_tracks_map(
                [self EXCEPT !.entries = RemoveNth(self.entries, index + 1),
                             !.is_modified = TRUE])

\* remove_at that updates the index and leaves the entry in the sequence
Playcount_remove_at_keep_entry(self, index) ==
    IF self.panicked \/ index >= Len(self.entries) THEN self
    ELSE LET track == self.entries[index + 1].track
             list1 == SelectSeq(self.tracks_map[track], LAMBDA x : x # index)
             map1 == IF list1 = <<>>
                     THEN MapRemove(self.tracks_map, track)
                     ELSE [self.tracks_map EXCEPT ![track] = list1]
         IN [self EXCEPT !.tracks_map =
                             [t \in DOMAIN map1 |->
                                 [k \in 1..Len(map1[t]) |->
                                     IF map1[t][k] > index THEN map1[t][k] - 1
                                     ELSE map1[t][k]]],
                         !.is_modified = TRUE]

\* remove_at whose shifting pass touches the list of the removed track only
Playcount_remove_at_shift_own(self, index) ==
    IF self.panicked \/ index >= Len(self.entries) THEN self
    ELSE LET track == self.entries[index + 1].track
             list1 == SelectSeq(self.tracks_map[track], LAMBDA x : x # index)
             shifted == [k \in 1..Len(list1) |->
                            IF list1[k] > index THEN list1[k] - 1 ELSE list1[k]]
         IN Playcount_debug_assert(
                [self EXCEPT !.entries = RemoveNth(self.entries, index + 1),
                             !.tracks_map = IF list1 = <<>>
                                            THEN MapRemove(self.tracks_map, track)
                                            ELSE [self.tracks_map EXCEPT ![track] = shifted],
                             !.is_modified = TRUE])

Playcount_remove_at_first(self, index) ==
    IF self.panicked \/ index >= Len(self.entries) THEN self
    ELSE LET track == self.entries[index + 1].track
             list1 == Tail(self.tracks_map[track])
             map1 == IF list1 = <<>>
                     THEN MapRemove(self.tracks_map, track)
                     ELSE [self.tracks_map EXCEPT ![track] = list1]
             shifted == [t \in DOMAIN map1 |->
                          [k \in 1..Len(map1[t]) |->
                              IF map1[t][k] > index THEN map1[t][k] - 1 ELSE map1[t][k]]]
         IN IF \E t \in DOMAIN map1 : index \in Range(map1[t])
            THEN [self EXCEPT !.entries = RemoveNth(self.entries, index + 1),
                              !.tracks_map = map1, !.panicked = TRUE]
            ELSE Playcount_debug_assert(
                     [self EXCEPT !.entries = RemoveNth(self.entries, index + 1),
                                  !.tracks_map = shifted, !.is_modified = TRUE])

Playcount_remove_at(self, index) ==
    IF self.panicked \/ index >= Len(self.entries) THEN self
    ELSE LET track == self.entries[index + 1].track
         IN IF track \notin DOMAIN self.tracks_map
            THEN [self EXCEPT !.panicked = TRUE]
            ELSE
            LET list == self.tracks_map[track]
                hits == {k \in 1..Len(list) : list[k] = index}
            IN IF hits = {}
               THEN [self EXCEPT !.panicked = TRUE]
               ELSE
               LET map_index == Min(hits)
                   list1 == RemoveNth(list, map_index)
                   map1 == IF list1 = <<>>
                           THEN MapRemove(self.tracks_map, track)
                           ELSE [self.tracks_map EXCEPT ![track] = list1]
                   entries1 == RemoveNth(self.entries, index + 1)
                   shifted == [t \in DOMAIN map1 |->
                                [k \in 1..Len(map1[t]) |->
                                    IF map1[t][k] > index THEN map1[t][k] - 1
                                    ELSE map1[t][k]]]
               IN IF \E t \in DOMAIN map1 : index \in Range(map1[t])
                  THEN [self EXCEPT !.entries = entries1, !.tracks_map = map1,
                                    !.panicked = TRUE]
                  ELSE Playcount_debug_assert(
                           [self EXCEPT !.entries = entries1, !.tracks_map = shifted,
                                        !.is_modified = TRUE])

\* for x in indices { self.remove_at(x) }
RECURSIVE Playcount_remove_each(_, _)
Playcount_remove_each(self, indices) ==
    IF indices = <<>> THEN self
    ELSE Playcount_remove_each(Playcount_remove_at(self, Head(indices)), Tail(indices))

Playcount_remove_last(self, track) ==
    IF ~Playcount_contains(self, track) THEN [self |-> self, found |-> FALSE]
    ELSE LET index == Max(Range(self.tracks_map[track]))
             after == Playcount_remove_at(self, index)
         IN [self |-> IF after.panicked THEN after ELSE [after EXCEPT !.is_modified = TRUE],
             found |-> TRUE]

Playcount_remove_all(self, track) ==
    IF ~Playcount_contains(self, track) THEN [self |-> self, n |-> 0]
    ELSE LET indices == SortAsc(self.tracks_map[track])
             after == Playcount_remove_each(self, Reverse(indices))
         IN [self |-> IF after.panicked THEN after ELSE [after EXCEPT !.is_modified = TRUE],
             n |-> Len(indices)]

\* `order` is the order in which the HashMap `edits` is iterated, by both
\* loops; the result is the object, whether Ok was returned, and the count
\* bulk_rename that gives every occurrence of a track the duration of the
\* track's first occurrence
Playcount_bulk_rename_one_duration(self, edits, order) ==
    LET present == {t \in DOMAIN edits : t \in DOMAIN self.tracks_map}
        Built(t, duration) == Entry_new(edits[t], Some(duration), None, None, None, None)
        zero == [secs |-> 0, nanos |-> 0]
    IN IF \E t \in present : ~Built(t, zero).ok THEN [self |-> self, ok |-> FALSE, n |-> 0]
       ELSE LET renamed ==
                    [i \in 1..Len(self.entries) |->
                        LET t == self.entries[i].track
                        IN IF t \in present
                           THEN Built(t, self.entries[self.tracks_map[t][1] + 1].duration).entry
                           ELSE self.entries[i]]
            IN [self |-> Playcount_rebuild_tracks_map(
                             [self EXCEPT !.entries = renamed,
                                          !.is_modified = (present # {}) \/ self.is_modified]),
                ok |-> TRUE,
                n |-> Cardinality({i \in 1..Len(self.entries) :
                                      self.entries[i].track \in present})]

\* bulk_rename that builds the replacement of every edit, present or not
Playcount_bulk_rename_validates_all(self, edits, order) ==
    LET present == {t \in DOMAIN edits : t \in DOMAIN self.tracks_map}
        Built(t, duration) == Entry_new(edits[t], Some(duration), None, None, None, None)
        zero == [secs |-> 0, nanos |-> 0]
    IN IF \E t \in DOMAIN edits : ~Built(t, zero).ok
       THEN [self |-> self, ok |-> FALSE, n |-> 0]
       ELSE LET renamed ==
                    [i \in 1..Len(self.entries) |->
                        LET t == self.entries[i].track
                        IN IF t \in present THEN Built(t, self.entries[i].duration).entry
                           ELSE self.entries[i]]
            IN [self |-> Playcount_rebuild_tracks_map(
                             [self EXCEPT !.entries = renamed,
                                          !.is_modified = (present # {}) \/ self.is_modified]),
                ok |-> TRUE,
                n |-> Cardinality({i \in 1..Len(self.entries) :
                                      self.entries[i].track \in present})]

\* bulk_rename without the pass that builds every replacement in advance: an
\* edit is applied as soon as its replacement is built
Playcount_bulk_rename_unvalidated(self, edits, order) ==
    LET RECURSIVE Loop(_, _, _)
        Loop(k, s, n_changed) ==
            IF k > Len(order)
            THEN [self |-> Playcount_rebuild_tracks_map(s), ok |-> TRUE, n |-> n_changed]
            ELSE LET target_track == order[k]
                     new_path == edits[target_track]
                 IN IF target_track \notin DOMAIN self.tracks_map
                    THEN Loop(k + 1, s, n_changed)
                    ELSE LET made == Entry_new(new_path, Some([secs |-> 0, nanos |-> 0]),
                                               None, None, None, None)
                             list == self.tracks_map[target_track]
                         IN IF ~made.ok THEN [self |-> s, ok |-> FALSE, n |-> 0]
                            ELSE Loop(k + 1,
                                      [s EXCEPT
                                          !.entries =
                                              [i \in 1..Len(s.entries) |->
                                                  IF (i - 1) \in Range(list)
                                                  THEN [made.entry EXCEPT
                                                           !.duration = s.entries[i].duration]
                                                  ELSE s.entries[i]],
                                          !.is_modified = TRUE],
                                      n_changed + Len(list))
    IN Loop(1, self, 0)

Playcount_bulk_rename(self, edits, order) ==
    LET RECURSIVE Validate(_, _)
        Validate(k, new_entries) ==
            IF k > Len(order) THEN [ok |-> TRUE, new_entries |-> new_entries]
            ELSE LET target_track == order[k]
                     new_path == edits[target_track]
                 IN IF target_track \notin DOMAIN self.tracks_map
                    THEN Validate(k + 1, new_entries)
                    ELSE LET made == Entry_new(new_path, Some([secs |-> 0, nanos |-> 0]),
                                               None, None, None, None)
                         IN IF ~made.ok THEN [ok |-> FALSE]
                            ELSE Validate(k + 1,
                                          [p \in (DOMAIN new_entries) \cup {new_path} |->
                                              IF p = new_path THEN made.entry
                                              ELSE new_entries[p]])
        RECURSIVE Replace(_, _, _, _)
        Replace(list, i, new_entry, ents) ==
            IF i > Len(list) THEN [new_entry |-> new_entry, entries |-> ents]
            ELSE LET index == list[i]
                     e == [new_entry EXCEPT !.duration = ents[index + 1].duration]
                 IN Replace(list, i + 1, e, [ents EXCEPT ![index + 1] = e])
        RECURSIVE Apply(_, _, _, _)
        Apply(k, s, new_entries, n_changed) ==
            IF k > Len(order) THEN [self |-> s, n |-> n_changed]
            ELSE LET target_track == order[k]
                     new_path == edits[target_track]
                 IN IF target_track \notin DOMAIN s.tracks_map
                    THEN Apply(k + 1, s, new_entries, n_changed)
                    ELSE LET list == s.tracks_map[target_track]
                         IN IF \E i \in Range(list) : i >= Len(s.entries)
                            THEN [self |-> [s EXCEPT !.panicked = TRUE], n |-> n_changed]
                            ELSE LET done == Replace(list, 1, new_entries[new_path], s.entries)
                                 IN Apply(k + 1,
                                          [s EXCEPT !.entries = done.entries,
                                                    !.is_modified = TRUE],
                                          [new_entries EXCEPT ![new_path] = done.new_entry],
                                          n_changed + Len(list))
        valid == Validate(1, EmptyMap)
    IN IF ~valid.ok THEN [self |-> self, ok |-> FALSE, n |-> 0]
       ELSE LET applied == Apply(1, self, valid.new_entries, 0)
            IN IF applied.self.panicked
               THEN [self |-> applied.self, ok |-> TRUE, n |-> applied.n]
               ELSE [self |-> Playcount_rebuild_tracks_map(applied.self), ok |-> TRUE,
                     n |-> applied.n]

\* the lines that write() puts in the file
Playcount_lines(self) == [i \in 1..Len(self.entries) |-> as_file_line(self.entries[i])]

\* a load that gives up at the first line that does not parse
Playcount_load_until_bad_line(self, lines) ==
    LET RECURSIVE Read(_, _, _)
        Read(k, entries_new, tracks_map_new) ==
            IF k > Len(lines) \/ ~Entry_from_str(lines[k]).ok
            THEN [entries |-> entries_new, tracks_map |-> tracks_map_new]
            ELSE LET parsed == Entry_from_str(lines[k])
                 IN Read(k + 1, Append(entries_new, parsed.entry),
                         MapPush(tracks_map_new, parsed.entry.track, Len(entries_new)))
        read == Read(1, <<>>, EmptyMap)
    IN Playcount_debug_assert(
           [self EXCEPT !.entries = read.entries,
                        !.tracks_map = read.tracks_map,
                        !.is_modified = FALSE])

\* reload() on a file that exists and whose lines are all valid UTF-8: a
\* line that does not parse is skipped
Playcount_load(self, lines) ==
    LET RECURSIVE Read(_, _, _)
        Read(k, entries_new, tracks_map_new) ==
            IF k > Len(lines) THEN [entries |-> entries_new, tracks_map |-> tracks_map_new]
            ELSE LET parsed == Entry_from_str(lines[k])
                 IN IF ~parsed.ok THEN Read(k + 1, entries_new, tracks_map_new)
                    ELSE Read(k + 1, Append(entries_new, parsed.entry),
                              MapPush(tracks_map_new, parsed.entry.track, Len(entries_new)))
        read == Read(1, <<>>, EmptyMap)
    IN Playcount_debug_assert(
           [self EXCEPT !.entries = read.entries,
                        !.tracks_map = read.tracks_map,
                        !.is_modified = FALSE])

\* a reload that reads into self: the lines read before the failure stay
Playcount_reload_in_place(self, f) ==
    IF ~f.exists THEN [self |-> self, ok |-> FALSE]
    ELSE [self |-> Playcount_load(self, LinesBeforeErr(f.lines)), ok |-> CanBeRead(f)]

\* Playcount::reload on the file f, likewise
Playcount_reload(self, f) ==
    IF CanBeRead(f) THEN [self |-> Playcount_load(self, f.lines), ok |-> TRUE]
    ELSE [self |-> self, ok |-> FALSE]

\* Playcount::merge_duplicates, which plfix calls and whose body is not in the
\* sources: as its description has it, over entries that carry a count.  The
\* tracks with several positions are found, the counts at all but the first
\* position of each are summed into the first, those positions are sorted and
\* removed in descending order, and their number is returned.  `order` is the
\* order in which tracks_map yields its lists.
merge_duplicates(self, order) ==
    LET RECURSIVE Sum(_, _, _)
        Sum(pos, k, ents) ==
            IF k > Len(pos) THEN ents
            ELSE Sum(pos, k + 1,
                     [ents EXCEPT ![pos[1] + 1].count = @ + ents[pos[k] + 1].count])
        RECURSIVE Collect(_, _, _)
        Collect(k, indices, ents) ==
            IF k > Len(order) THEN [indices |-> indices, entries |-> ents]
            ELSE LET pos == self.tracks_map[order[k]]
                 IN IF Len(pos) > 1
                    THEN Collect(k + 1, indices \o Tail(pos), Sum(pos, 2, ents))
                    ELSE Collect(k + 1, indices, ents)
        found == Collect(1, <<>>, self.entries)
        n_duplicates == Len(found.indices)
        after == IF found.indices # <<>>
                 THEN LET removed == Playcount_remove_each(
                                         [self EXCEPT !.entries = found.entries],
                                         Reverse(SortAsc(found.indices)))
                      IN IF removed.panicked THEN removed
                         ELSE [removed EXCEPT !.is_modified = TRUE]
                 ELSE self
    IN [self |-> after, n |-> n_duplicates]

-----------------------------------------------------------------------------
(* The inputs the model draws.                                             *)

\* the edits maps passed to bulk_rename, old track -> new path: every map
\* of at most two edits
EditsMaps ==
    UNION {[keys -> FPaths] :
              keys \in {{}} \cup {{t, u} : t \in EditTracks, u \in EditTracks}}

\* the files found at the path of a playlist when it is constructed
PlaylistFiles ==
    { NoFile,
      File(<<>>),
      File(<< <<>> >>),
      File(<< music_dir >>),
      File(<< <<"a">>, <<"b">>, <<"a">> >>),
      File(<< <<>>, <<"/", "M", "a">>, <<>> >>),
      File(<< <<"a">>, InvalidUtf8 >>) }

LineA == << 2 ^ 23 + 1, "x", "", "l", "s", <<"a">> >>

LineB == << 2 ^ 23, "y", "v", "", "t", <<"b">> >>

\* a line whose path is empty
LineEmptyPath == << 2 ^ 23, "z", "", "", "u", <<>> >>

\* a line of two fields
LineShort == << 2 ^ 23, "x" >>

\* a line whose first field is no number
LineNoNumber == << NotANumber, "x", "", "l", "s", <<"a">> >>

\* the files found at the path of a playcount when it is constructed
PlaycountFiles ==
    { NoFile,
      File(<<>>),
      File(<< LineA, LineB, LineA >>),
      File(<< LineShort, LineEmptyPath, LineNoNumber >>),
      File(<< LineNoNumber, LineShort >>),
      File(<< LineB, InvalidUtf8 >>) }

-----------------------------------------------------------------------------
(* The state of the object, and the calls made on it.                      *)

\* no plfix is running
NoRun == [phase |-> "none"]

\* no picker has been built: TuiPickerState with no item
NoPicker ==
    [items |-> <<>>, scroll_amount |-> 0, is_refreshing |-> FALSE, did_select |-> FALSE,
     panicked |-> FALSE]

Ret(ok, n, found) == [ok |-> ok, n |-> n, found |-> found]

Unit == Ret(TRUE, 0, FALSE)

Err == Ret(FALSE, 0, FALSE)

\* the call and its result are recorded / are not recorded
Traced(c, r) == call' = c /\ ret' = r

Quiet == UNCHANGED <<call, ret>>

Running(k) == kind = k /\ ~panicked

\* the sequence of records of the object
sequence == IF kind = "Playlist" THEN tracks ELSE entries

\* TracksFile::len
len == Len(sequence)

\* the track of the record at position i: tracks().nth(i)
track_at(i) == IF kind = "Playlist" THEN tracks[i + 1] ELSE entries[i + 1].track

\* TracksFile::contains
contains(track) == track \in DOMAIN tracks_map

\* TracksFile::track_positions: None, or Some(the list)
track_positions(track) == IF track \in DOMAIN tracks_map THEN Some(tracks_map[track]) ELSE None

Playlist_self ==
    [tracks |-> tracks, tracks_map |-> tracks_map, is_modified |-> is_modified,
     panicked |-> panicked, integrity_ok |-> integrity_ok]

\* the object becomes `self`; a Playlist has no entries
Playlist_becomes(self) ==
    /\ tracks' = self.tracks
    /\ tracks_map' = self.tracks_map
    /\ is_modified' = self.is_modified
    /\ panicked' = self.panicked
    /\ integrity_ok' = self.integrity_ok
    /\ UNCHANGED <<kind, entries>>

Playcount_self ==
    [entries |-> entries, tracks_map |-> tracks_map, is_modified |-> is_modified,
     panicked |-> panicked, integrity_ok |-> integrity_ok]

\* the object becomes `self`; a Playcount has no tracks
Playcount_becomes(self) ==
    /\ entries' = self.entries
    /\ tracks_map' = self.tracks_map
    /\ is_modified' = self.is_modified
    /\ panicked' = self.panicked
    /\ integrity_ok' = self.integrity_ok
    /\ UNCHANGED <<kind, tracks>>

\* a call that leaves the file alone: `changed` records a changed sequence
InMemory ==
    /\ changed' = (changed \/ tracks' # tracks \/ entries' # entries)
    /\ UNCHANGED <<file, tool>>

PlaylistPush(fpath) ==
    /\ Running("Playlist")
    /\ Playlist_becomes(Playlist_push(Playlist_self, fpath))
    /\ InMemory

PlaylistRemoveAt(index) ==
    /\ Running("Playlist")
    /\ Playlist_becomes(Playlist_remove_at(Playlist_self, index))
    /\ InMemory

PlaylistRemoveLast(track) ==
    /\ Running("Playlist")
    /\ Playlist_becomes(Playlist_remove_last(Playlist_self, track).self)
    /\ InMemory

PlaylistRemoveAll(track) ==
    /\ Running("Playlist")
    /\ Playlist_becomes(Playlist_remove_all(Playlist_self, track).self)
    /\ InMemory

PlaylistRemoveDuplicates(order) ==
    /\ Running("Playlist")
    /\ Playlist_becomes(Playlist_remove_duplicates(Playlist_self, order).self)
    /\ InMemory

PlaylistBulkRename(edits, order) ==
    /\ Running("Playlist")
    /\ Playlist_becomes(Playlist_bulk_rename(Playlist_self, edits, order).self)
    /\ InMemory

\* File::open fails on a missing file, and a line that is not UTF-8 makes
\* the loop return Err: in both cases reload() assigns nothing
Readable == CanBeRead(file)

PlaylistReload ==
    /\ Running("Playlist")
    /\ Playlist_becomes(Playlist_reload(Playlist_self, file).self)
    /\ changed' = IF Readable THEN FALSE ELSE changed
    /\ UNCHANGED <<file, tool>>

\* the outcomes of the two fallible steps of write(): File::create may fail,
\* leaving the file as it was; it truncates the file, and write! may fail
\* after `written` lines; is_modified is cleared when both succeed
WriteOutcomes(lines) ==
    {[failed |-> "create", written |-> 0], [failed |-> "none", written |-> Len(lines)]}
        \cup {[failed |-> "write", written |-> k] : k \in 0..(Len(lines) - 1)}

\* a write that opens the file for appending
WriteTo_appending(lines, outcome) ==
    /\ file' = IF outcome.failed = "create" THEN file
               ELSE File(file.lines \o SubSeq(lines, 1, outcome.written))
    /\ is_modified' = IF outcome.failed = "none" THEN FALSE ELSE is_modified
    /\ changed' = IF outcome.failed = "none" THEN FALSE ELSE changed
    /\ UNCHANGED <<kind, tracks, entries, tracks_map, panicked, integrity_ok, tool>>

\* a write that clears is_modified before the file is created and written
WriteTo_clears_first(lines, outcome) ==
    /\ file' = IF outcome.failed = "create" THEN file
               ELSE File(SubSeq(lines, 1, outcome.written))
    /\ is_modified' = FALSE
    /\ changed' = IF outcome.failed = "none" THEN FALSE ELSE changed
    /\ UNCHANGED <<kind, tracks, entries, tracks_map, panicked, integrity_ok, tool>>

WriteTo(lines, outcome) ==
    /\ file' = IF outcome.failed = "create" THEN file
               ELSE File(SubSeq(lines, 1, outcome.written))
    /\ is_modified' = IF outcome.failed = "none" THEN FALSE ELSE is_modified
    /\ changed' = IF outcome.failed = "none" THEN FALSE ELSE changed
    /\ UNCHANGED <<kind, tracks, entries, tracks_map, panicked, integrity_ok, tool>>

PlaylistWrite(outcome) ==
    /\ Running("Playlist")
    /\ WriteTo(Playlist_lines(Playlist_self), outcome)

PlaycountPush(fpath) ==
    /\ Running("Playcount")
    /\ Playcount_becomes(Playcount_push(Playcount_self, fpath).self)
    /\ InMemory

PlaycountRemoveAt(index) ==
    /\ Running("Playcount")
    /\ Playcount_becomes(Playcount_remove_at(Playcount_self, index))
    /\ InMemory

PlaycountRemoveLast(track) ==
    /\ Running("Playcount")
    /\ Playcount_becomes(Playcount_remove_last(Playcount_self, track).self)
    /\ InMemory

PlaycountRemoveAll(track) ==
    /\ Running("Playcount")
    /\ Playcount_becomes(Playcount_remove_all(Playcount_self, track).self)
    /\ InMemory

PlaycountBulkRename(edits, order) ==
    /\ Running("Playcount")
    /\ Playcount_becomes(Playcount_bulk_rename(Playcount_self, edits, order).self)
    /\ InMemory

PlaycountReload ==
    /\ Running("Playcount")
    /\ Playcount_becomes(Playcount_reload(Playcount_self, file).self)
    /\ changed' = IF Readable THEN FALSE ELSE changed
    /\ UNCHANGED <<file, tool>>

PlaycountWrite(outcome) ==
    /\ Running("Playcount")
    /\ WriteTo(Playcount_lines(Playcount_self), outcome)

-----------------------------------------------------------------------------
(* Spec: an object made by new(fpath), with any of the files at its path,  *)
(* under every call of the trait.  The calls are not recorded.             *)

\* Playlist::new / Playcount::new
New(k, files) ==
    /\ kind = k
    /\ tracks = <<>>
    /\ entries = <<>>
    /\ tracks_map = EmptyMap
    /\ is_modified = FALSE
    /\ panicked = FALSE
    /\ integrity_ok = TRUE
    /\ file \in files
    /\ changed = FALSE
    /\ call = [op |-> "new"]
    /\ ret = Unit
    /\ playlists = <<>>
    /\ playcounts = <<>>
    /\ pretend = FALSE
    /\ run = NoRun
    /\ picker = NoPicker

Init == New("Playlist", PlaylistFiles) \/ New("Playcount", PlaycountFiles)

Next ==
    \/ \E fpath \in FPaths : Len(tracks) < MaxLen /\ PlaylistPush(fpath) /\ Quiet
    \/ \E index \in 0..Len(tracks) : PlaylistRemoveAt(index) /\ Quiet
    \/ \E track \in Tracks : PlaylistRemoveLast(track) /\ Quiet
    \/ \E track \in Tracks : PlaylistRemoveAll(track) /\ Quiet
    \/ \E order \in Orders(DOMAIN tracks_map) : PlaylistRemoveDuplicates(order) /\ Quiet
    \/ \E edits \in EditsMaps : \E order \in Orders(DOMAIN edits) :
          PlaylistBulkRename(edits, order) /\ Quiet
    \/ PlaylistReload /\ Quiet
    \/ \E outcome \in WriteOutcomes(tracks) : PlaylistWrite(outcome) /\ Quiet
    \/ \E fpath \in FPaths : Len(entries) < MaxLen /\ PlaycountPush(fpath) /\ Quiet
    \/ \E index \in 0..Len(entries) : PlaycountRemoveAt(index) /\ Quiet
    \/ \E track \in Tracks : PlaycountRemoveLast(track) /\ Quiet
    \/ \E track \in Tracks : PlaycountRemoveAll(track) /\ Quiet
    \/ \E edits \in EditsMaps : \E order \in Orders(DOMAIN edits) :
          PlaycountBulkRename(edits, order) /\ Quiet
    \/ PlaycountReload /\ Quiet
    \/ \E outcome \in WriteOutcomes(entries) : PlaycountWrite(outcome) /\ Quiet

Spec == Init /\ [][Next]_vars

-----------------------------------------------------------------------------
(* SpecCalls: an object made by new(fpath) under the calls that add and    *)
(* remove records, each recorded with its arguments, the sequence it was   *)
(* made on and its result.                                                 *)

InitCalls == New("Playlist", {NoFile}) \/ New("Playcount", {NoFile})

NextCalls ==
    \/ \E fpath \in FPaths :
          /\ Len(tracks) < MaxCallsLen
          /\ PlaylistPush(fpath)
          /\ Traced([op |-> "push", fpath |-> fpath, before |-> sequence], Unit)
    \/ \E index \in 0..Len(tracks) :
          /\ PlaylistRemoveAt(index)
          /\ Traced([op |-> "remove_at", index |-> index, before |-> sequence], Unit)
    \/ \E track \in Tracks :
          /\ PlaylistRemoveLast(track)
          /\ Traced([op |-> "remove_last", track |-> track, before |-> sequence],
                    Ret(TRUE, 0, Playlist_remove_last(Playlist_self, track).found))
    \/ \E track \in Tracks :
          /\ PlaylistRemoveAll(track)
          /\ Traced([op |-> "remove_all", track |-> track, before |-> sequence],
                    Ret(TRUE, Playlist_remove_all(Playlist_self, track).n, FALSE))
    \/ \E order \in Orders(DOMAIN tracks_map) :
          /\ PlaylistRemoveDuplicates(order)
          /\ Traced([op |-> "remove_duplicates", before |-> sequence,
                     prior |-> [op |-> call.op, n |-> ret.n]],
                    Ret(TRUE, Playlist_remove_duplicates(Playlist_self, order).n, FALSE))
    \/ \E fpath \in FPaths :
          /\ Len(entries) < MaxCallsLen
          /\ PlaycountPush(fpath)
          /\ Traced([op |-> "push", fpath |-> fpath, before |-> sequence],
                    Ret(Playcount_push(Playcount_self, fpath).ok, 0, FALSE))
    \/ \E index \in 0..Len(entries) :
          /\ PlaycountRemoveAt(index)
          /\ Traced([op |-> "remove_at", index |-> index, before |-> sequence], Unit)
    \/ \E track \in Tracks :
          /\ PlaycountRemoveLast(track)
          /\ Traced([op |-> "remove_last", track |-> track, before |-> sequence],
                    Ret(TRUE, 0, Playcount_remove_last(Playcount_self, track).found))
    \/ \E track \in Tracks :
          /\ PlaycountRemoveAll(track)
          /\ Traced([op |-> "remove_all", track |-> track, before |-> sequence],
                    Ret(TRUE, Playcount_remove_all(Playcount_self, track).n, FALSE))

SpecCalls == InitCalls /\ [][NextCalls]_vars

-----------------------------------------------------------------------------
(* SpecRename: an object made by new(fpath) under push and bulk_rename,    *)
(* each recorded with its arguments and its result.                        *)

NextRename ==
    \/ \E fpath \in FPaths :
          /\ Len(tracks) < MaxRenameLen
          /\ PlaylistPush(fpath)
          /\ Traced([op |-> "push", fpath |-> fpath, before |-> sequence], Unit)
    \/ \E edits \in EditsMaps : \E order \in Orders(DOMAIN edits) :
          /\ PlaylistBulkRename(edits, order)
          /\ Traced([op |-> "bulk_rename", edits |-> edits, before |-> sequence],
                    Ret(TRUE, Playlist_bulk_rename(Playlist_self, edits, order).n, FALSE))
    \/ \E fpath \in FPaths :
          /\ Len(entries) < MaxRenameLen
          /\ PlaycountPush(fpath)
          /\ Traced([op |-> "push", fpath |-> fpath, before |-> sequence],
                    Ret(Playcount_push(Playcount_self, fpath).ok, 0, FALSE))
    \/ \E edits \in EditsMaps : \E order \in Orders(DOMAIN edits) :
          /\ PlaycountBulkRename(edits, order)
          /\ Traced([op |-> "bulk_rename", edits |-> edits, before |-> sequence],
                    LET r == Playcount_bulk_rename(Playcount_self, edits, order)
                    IN Ret(r.ok, r.n, FALSE))

SpecRename == InitCalls /\ [][NextRename]_vars

-----------------------------------------------------------------------------
(* SpecMerge: a playcount whose entries carry a count, as loaded from any  *)
(* file of at most MaxMergeLen lines, under merge_duplicates, recorded     *)
(* with its result.                                                        *)

\* the entries of the files: track A with the counts 2, 3 and 5, tracks B
\* and C with the count 1
MergeEntries ==
    {[track |-> [path |-> <<"a">>], count |-> c] : c \in {2, 3, 5}}
        \cup {[track |-> [path |-> <<"b">>], count |-> 1],
              [track |-> [path |-> <<>>], count |-> 1]}

InitMerge ==
    /\ kind = "Playcount"
    /\ tracks = <<>>
    /\ \E n \in 0..MaxMergeLen : entries \in [1..n -> MergeEntries]
    /\ tracks_map = Playcount_rebuild_tracks_map([Playcount_new EXCEPT !.entries = entries]).tracks_map
    /\ is_modified = FALSE
    /\ panicked = FALSE
    /\ integrity_ok = TRUE
    /\ file = NoFile
    /\ changed = FALSE
    /\ call = [op |-> "open"]
    /\ ret = Unit
    /\ playlists = <<>>
    /\ playcounts = <<>>
    /\ pretend = FALSE
    /\ run = NoRun
    /\ picker = NoPicker

PlaycountMergeDuplicates(order) ==
    /\ Running("Playcount")
    /\ Playcount_becomes(merge_duplicates(Playcount_self, order).self)
    /\ InMemory

NextMerge ==
    \E order \in Orders(DOMAIN tracks_map) :
        /\ PlaycountMergeDuplicates(order)
        /\ Traced([op |-> "merge_duplicates", before |-> sequence],
                  Ret(TRUE, merge_duplicates(Playcount_self, order).n, FALSE))

SpecMerge == InitMerge /\ [][NextMerge]_vars

-----------------------------------------------------------------------------
(* plfix (src/bin/plfix.rs): the two duplicate steps of main, over the     *)
(* playlists and playcounts it has opened.  The name of a playlist is the  *)
(* file stem of its path, modelled as a sequence of pieces so that a       *)
(* prefix of the string is a prefix of the sequence.                       *)

\* str::starts_with
str_starts_with(string, prefix) ==
    Len(string) >= Len(prefix) /\ SubSeq(string, 1, Len(prefix)) = prefix

\* the literal "hist."
HistMarker == <<"hist.">>

\* the names of the playlist files: rock, hist.rock and history
PlaylistNames == {<<"rock">>, <<"hist.", "rock">>, <<"hist", "ory">>}

\* Playlist::open of a file with the given stem and lines
Playlist_open(name, lines) ==
    Playlist_load([name |-> name] @@ Playlist_new, lines)

\* the sum of the numbers of a sequence
RECURSIVE SumSeq(_)
SumSeq(ns) == IF ns = <<>> THEN 0 ELSE Head(ns) + SumSeq(Tail(ns))

\* remove_playlist_duplicates without the test of the name
remove_playlist_duplicates_all(pls, orders) ==
    LET Step(i) == Playlist_remove_duplicates(pls[i], orders[i])
    IN [playlists |-> [i \in 1..Len(pls) |-> Step(i).self],
        n |-> SumSeq([i \in 1..Len(pls) |-> Step(i).n])]

\* remove_playlist_duplicates: the playlists after the call and the number
\* returned; orders[i] is the order in which the index of playlist i is
\* iterated
remove_playlist_duplicates(pls, orders) ==
    LET Step(i) == IF str_starts_with(pls[i].name, HistMarker)
                   THEN [self |-> pls[i], n |-> 0]
                   ELSE Playlist_remove_duplicates(pls[i], orders[i])
    IN [playlists |-> [i \in 1..Len(pls) |-> Step(i).self],
        n |-> SumSeq([i \in 1..Len(pls) |-> Step(i).n])]

\* merge_playcount_duplicates, likewise
merge_playcount_duplicates(pcs, orders) ==
    LET Step(i) == merge_duplicates(pcs[i], orders[i])
    IN [playcounts |-> [i \in 1..Len(pcs) |-> Step(i).self],
        n |-> SumSeq([i \in 1..Len(pcs) |-> Step(i).n])]

\* an iteration order for the index of each collection of a Vec
OrdersOf(collections) ==
    {orders \in [1..Len(collections) ->
                    UNION {Orders(DOMAIN collections[i].tracks_map) :
                              i \in 1..Len(collections)}] :
        \A i \in 1..Len(collections) :
            orders[i] \in Orders(DOMAIN collections[i].tracks_map)}

-----------------------------------------------------------------------------
(* SpecFix: plfix has opened two playlists and one playcount of at most    *)
(* MaxFixLen lines each, with or without --pretend.  Either main goes      *)
(* through its two duplicate steps, or remove_duplicates is called on the  *)
(* playlists one at a time.                                                *)

\* the lines of the playlist files
FixLines == {<<"a">>, <<"b">>}

\* the entries of the playcount file, with their counts
FixEntries ==
    {[track |-> [path |-> <<"a">>], count |-> 1], [track |-> [path |-> <<"b">>], count |-> 1]}

\* the playlists and playcounts that Playlist::iter and Playcount::iter open
OpenedPlaylists ==
    {Playlist_open(name, lines) :
        name \in PlaylistNames,
        lines \in UNION {[1..n -> FixLines] : n \in 0..MaxFixLen}}

OpenedPlaycounts ==
    {Playcount_rebuild_tracks_map([Playcount_new EXCEPT !.entries = es]) :
        es \in UNION {[1..n -> FixEntries] : n \in 0..MaxFixLen}}

InitFix ==
    /\ kind = "Playlist"
    /\ tracks = <<>>
    /\ entries = <<>>
    /\ tracks_map = EmptyMap
    /\ is_modified = FALSE
    /\ panicked = FALSE
    /\ integrity_ok = TRUE
    /\ file = NoFile
    /\ changed = FALSE
    /\ call = [op |-> "main"]
    /\ ret = Unit
    /\ playlists \in [1..2 -> OpenedPlaylists]
    /\ playcounts \in [1..1 -> OpenedPlaycounts]
    /\ pretend \in BOOLEAN
    /\ run = NoRun
    /\ picker = NoPicker

\* main: remove_playlist_duplicates(&mut playlists), whose result is printed
MainRemovePlaylistDuplicates(orders) ==
    /\ call.op = "main"
    /\ playlists' = remove_playlist_duplicates(playlists, orders).playlists
    /\ Traced([op |-> "remove_playlist_duplicates", before |-> playlists],
              Ret(TRUE, remove_playlist_duplicates(playlists, orders).n, FALSE))
    /\ UNCHANGED <<object, kind, file, changed, playcounts, pretend, run, picker>>

\* main: merge_playcount_duplicates(&mut playcounts), whose result is printed
MainMergePlaycountDuplicates(orders) ==
    /\ call.op = "remove_playlist_duplicates"
    /\ playcounts' = merge_playcount_duplicates(playcounts, orders).playcounts
    /\ Traced([op |-> "merge_playcount_duplicates", before |-> playcounts],
              Ret(TRUE, merge_playcount_duplicates(playcounts, orders).n, FALSE))
    /\ UNCHANGED <<object, kind, file, changed, playlists, pretend, run, picker>>

\* playlists[i].remove_duplicates(), called outside main
MemberRemoveDuplicates(i, order) ==
    /\ call.op \in {"main", "remove_duplicates"}
    /\ playlists' = [playlists EXCEPT
                        ![i + 1] = Playlist_remove_duplicates(playlists[i + 1], order).self]
    /\ Traced([op |-> "remove_duplicates", i |-> i, before |-> playlists],
              Ret(TRUE, Playlist_remove_duplicates(playlists[i + 1], order).n, FALSE))
    /\ UNCHANGED <<object, kind, file, changed, playcounts, pretend, run, picker>>

NextFix ==
    \/ \E orders \in OrdersOf(playlists) : MainRemovePlaylistDuplicates(orders)
    \/ \E orders \in OrdersOf(playcounts) : MainMergePlaycountDuplicates(orders)
    \/ \E i \in 0..(Len(playlists) - 1) :
          \E order \in Orders(DOMAIN playlists[i + 1].tracks_map) :
              MemberRemoveDuplicates(i, order)

SpecFix == InitFix /\ [][NextFix]_vars

-----------------------------------------------------------------------------
(* plfix: the removal of the tracks marked for deletion                    *)
(* (src/bin/plfix.rs).  A HashSet is iterated in some order of its         *)
(* elements, which `order` is.                                             *)

\* the name of the ignore playlist, the stem of .ignore.m3u
IgnoreName == <<".ignore">>

\* the loop over the tracks that a history playlist or a playcount holds:
\* each is pushed to the ignore playlist
RECURSIVE push_contained(_, _, _)
push_contained(ignore_playlist, contained, order) ==
    IF order = <<>> THEN ignore_playlist
    ELSE push_contained(IF Head(order) \in contained
                        THEN Playlist_push_track(ignore_playlist, Head(order))
                        ELSE ignore_playlist,
                        contained, Tail(order))

\* the loop that deletes the tracks from another playlist
RECURSIVE remove_each_track(_, _)
remove_each_track(playlist, order) ==
    IF order = <<>> THEN playlist
    ELSE remove_each_track(Playlist_remove_all(playlist, Head(order)).self, Tail(order))

\* remove_tracks_from_playlists that deletes from the history playlists too
remove_tracks_from_playlists_all(pls, order, ignore_playlist) ==
    [playlists |-> [i \in 1..Len(pls) |-> remove_each_track(pls[i], order)],
     ignore_playlist |-> ignore_playlist]

\* remove_tracks_from_playlists: the playlists and the ignore playlist after
\* the call
remove_tracks_from_playlists(pls, order, ignore_playlist) ==
    LET RECURSIVE Each(_, _)
        Each(i, ignore) ==
            IF i > Len(pls) THEN ignore
            ELSE IF str_starts_with(pls[i].name, HistMarker)
            THEN Each(i + 1, push_contained(ignore, DOMAIN pls[i].tracks_map, order))
            ELSE Each(i + 1, ignore)
    IN [playlists |-> [i \in 1..Len(pls) |->
                          IF str_starts_with(pls[i].name, HistMarker) THEN pls[i]
                          ELSE remove_each_track(pls[i], order)],
        ignore_playlist |-> Each(1, ignore_playlist)]

\* remove_tracks_from_playcounts: the ignore playlist after the call; the
\* playcounts are only read
RECURSIVE remove_tracks_from_playcounts(_, _, _)
remove_tracks_from_playcounts(pcs, order, ignore_playlist) ==
    IF pcs = <<>> THEN ignore_playlist
    ELSE remove_tracks_from_playcounts(
             Tail(pcs), order,
             push_contained(ignore_playlist, DOMAIN Head(pcs).tracks_map, order))

-----------------------------------------------------------------------------
(* SpecRemove: two playlists and a playcount of at most MaxFixLen lines    *)
(* each and the ignore playlist are open, and a set of tracks is removed   *)
(* from the playlists and then from the playcounts.                        *)

\* the ignore playlist that Playlist::open_or_new gives: new, or opened
IgnorePlaylists ==
    {[name |-> IgnoreName] @@ Playlist_new, Playlist_open(IgnoreName, << <<"b">> >>)}

\* the run holds the ignore playlist and the tracks to remove, in the order
\* in which the HashSet yields them
InitRemove ==
    /\ kind = "Playlist"
    /\ tracks = <<>>
    /\ entries = <<>>
    /\ tracks_map = EmptyMap
    /\ is_modified = FALSE
    /\ panicked = FALSE
    /\ integrity_ok = TRUE
    /\ file = NoFile
    /\ changed = FALSE
    /\ call = [op |-> "main"]
    /\ ret = Unit
    /\ playlists \in [1..2 -> OpenedPlaylists]
    /\ playcounts \in [1..1 -> OpenedPlaycounts]
    /\ pretend = FALSE
    /\ \E ignore_playlist \in IgnorePlaylists :
          \E deletes \in SUBSET {[path |-> line] : line \in FixLines} :
             \E order \in Orders(deletes) :
                run = [phase |-> "resolved", ignore_playlist |-> ignore_playlist,
                       deletes |-> order]
    /\ picker = NoPicker

\* main: remove_tracks_from_playlists(&mut playlists, &deletes, &mut ignore_playlist)
MainRemoveTracksFromPlaylists ==
    /\ call.op = "main"
    /\ LET done == remove_tracks_from_playlists(playlists, run.deletes, run.ignore_playlist)
       IN /\ playlists' = done.playlists
          /\ run' = [run EXCEPT !.ignore_playlist = done.ignore_playlist]
    /\ Traced([op |-> "remove_tracks_from_playlists", before |-> playlists,
               ignore_before |-> run.ignore_playlist], Unit)
    /\ UNCHANGED <<object, kind, file, changed, playcounts, pretend, picker>>

\* main: remove_tracks_from_playcounts(&mut playcounts, &deletes, &mut ignore_playlist)
MainRemoveTracksFromPlaycounts ==
    /\ call.op = "remove_tracks_from_playlists"
    /\ run' = [run EXCEPT !.ignore_playlist =
                  remove_tracks_from_playcounts(playcounts, run.deletes, run.ignore_playlist)]
    /\ Traced([op |-> "remove_tracks_from_playcounts", before |-> playcounts,
               ignore_before |-> run.ignore_playlist], Unit)
    /\ UNCHANGED <<object, kind, file, changed, playlists, playcounts, pretend, picker>>

NextRemove ==
    \/ MainRemoveTracksFromPlaylists
    \/ MainRemoveTracksFromPlaycounts

SpecRemove == InitRemove /\ [][NextRemove]_vars

-----------------------------------------------------------------------------
(* SpecRun: a run of plfix's main (src/bin/plfix.rs), from the opening of  *)
(* the files to the exit.  The playlist directory holds rock.m3u and       *)
(* hist.rock.m3u, of at most MaxRunLen lines each, and there is one        *)
(* playcount; file c is not in the library.  `run` holds the position in   *)
(* main, its local variables, the files on disk and what they were when    *)
(* the run began.                                                          *)

\* the relative path of a file that is not in the library
Missing == <<"c">>

\* the playcount line of the missing file
LineMissing == << 2 ^ 23, "z", "", "", "u", Missing >>

\* the lines of the playlist files of a run
RunLines == {<<"a">>, Missing}

\* what Playlist::iter opens: rock and hist.rock
RunPlaylists ==
    {pls \in [1..2 -> {Playlist_open(name, lines) :
                          name \in {<<"rock">>, <<"hist.", "rock">>},
                          lines \in UNION {[1..n -> RunLines] : n \in 0..MaxRunLen}}] :
        pls[1].name = <<"rock">> /\ pls[2].name = <<"hist.", "rock">>}

\* what Playcount::iter opens: one playcount, no track twice in it
RunPlaycounts ==
    {pcs \in [1..1 -> {Playcount_load(Playcount_new, lines) :
                          lines \in UNION {[1..n -> {LineA, LineMissing}] : n \in 0..MaxRunLen}}] :
        \A t \in DOMAIN pcs[1].tracks_map : Len(pcs[1].tracks_map[t]) = 1}

\* the ignore playlist of a run: new, or opened from a file that lists c
RunIgnorePlaylists ==
    {[name |-> IgnoreName] @@ Playlist_new, Playlist_open(IgnoreName, << Missing >>)}

\* Utf8Path::exists, from the music directory
exists(fpath) == AudioFile(fpath) # "none"

\* find_invalid_tracks: the set after the call
find_invalid_tracks(files, set, ignore_playlist) ==
    set \cup {x \in UNION {DOMAIN files[i].tracks_map : i \in 1..Len(files)} :
                 ~exists(x.path) /\ ~Playlist_contains(ignore_playlist, x)}

\* write(): the object and its file after the call
write(self, lines, f, outcome) ==
    [self |-> IF outcome.failed = "none" THEN [self EXCEPT !.is_modified = FALSE] ELSE self,
     file |-> IF outcome.failed = "create" THEN f
              ELSE File(SubSeq(lines, 1, outcome.written))]

\* the files of the objects of a Vec
FilesOf(collections, lines(_)) ==
    [i \in 1..Len(collections) |-> File(lines(collections[i]))]

InitRun ==
    /\ kind = "Playlist"
    /\ tracks = <<>>
    /\ entries = <<>>
    /\ tracks_map = EmptyMap
    /\ is_modified = FALSE
    /\ panicked = FALSE
    /\ integrity_ok = TRUE
    /\ file = NoFile
    /\ changed = FALSE
    /\ call = [op |-> "main"]
    /\ ret = Unit
    /\ playlists \in RunPlaylists
    /\ playcounts \in RunPlaycounts
    /\ pretend \in BOOLEAN
    /\ \E ignore_playlist \in RunIgnorePlaylists :
          LET disk == [playlists |-> FilesOf(playlists, Playlist_lines),
                       playcounts |-> FilesOf(playcounts, Playcount_lines),
                       ignore |-> IF ignore_playlist.tracks = <<>> THEN NoFile
                                  ELSE File(Playlist_lines(ignore_playlist))]
          IN run = [phase |-> "opened", ignore_playlist |-> ignore_playlist,
                    invalid_tracks |-> {}, order |-> <<>>, i |-> 0,
                    edits |-> EmptyMap, deletes |-> {}, answer |-> "",
                    deduplicated |-> {}, written |-> {}, aborted |-> FALSE,
                    failed |-> FALSE, disk |-> disk, disk_before |-> disk]
    /\ picker = NoPicker

\* what a step of the run leaves alone
RunOnly == UNCHANGED <<object, kind, file, changed, call, ret, pretend, picker>>

\* main: the playlists are opened, remove_playlist_duplicates is called on
\* them and their invalid tracks are found
RunFixPlaylists(orders) ==
    /\ run.phase = "opened"
    /\ LET done == remove_playlist_duplicates(playlists, orders)
       IN /\ playlists' = done.playlists
          /\ run' = [run EXCEPT
                        !.phase = "playlists",
                        !.deduplicated = {i \in 1..Len(playlists) :
                                             Len(done.playlists[i].tracks)
                                                < Len(playlists[i].tracks)},
                        !.invalid_tracks =
                            find_invalid_tracks(done.playlists, @, run.ignore_playlist)]
    /\ UNCHANGED playcounts
    /\ RunOnly

\* main: the playcounts are opened, merge_playcount_duplicates is called on
\* them and their invalid tracks are found
RunFixPlaycounts(orders) ==
    /\ run.phase = "playlists"
    /\ LET done == merge_playcount_duplicates(playcounts, orders)
       IN /\ playcounts' = done.playcounts
          /\ run' = [run EXCEPT
                        !.phase = "playcounts",
                        !.invalid_tracks =
                            find_invalid_tracks(done.playcounts, @, run.ignore_playlist)]
    /\ UNCHANGED playlists
    /\ RunOnly

\* main: there is no invalid track, or --pretend was given: nothing more is
\* done
RunNothingToFix ==
    /\ run.phase = "playcounts"
    /\ run.invalid_tracks = {} \/ pretend
    /\ run' = [run EXCEPT !.phase = "exit"]
    /\ UNCHANGED <<playlists, playcounts>>
    /\ RunOnly

\* main: ask_resolve_invalid_paths is entered; `order` is the order in which
\* the HashSet of the invalid tracks is iterated
RunAsk(order) ==
    /\ run.phase = "playcounts"
    /\ run.invalid_tracks # {} /\ ~pretend
    /\ run' = [run EXCEPT !.phase = "asking", !.order = order, !.i = 0,
                          !.edits = EmptyMap, !.deletes = {}]
    /\ UNCHANGED <<playlists, playcounts>>
    /\ RunOnly

\* an answer after which an accepted edit leaves the track at hand to be
\* asked about again
RunAnswer_asks_again(answer, new_path) ==
    /\ run.phase = "asking"
    /\ run.i < Len(run.order)
    /\ LET track == run.order[run.i + 1]
       IN run' =
            CASE answer = "s" -> [run EXCEPT !.answer = answer, !.i = @ + 1]
              [] answer = "e" /\ ~is_none(new_path) ->
                    [run EXCEPT !.answer = answer,
                                !.edits = [t \in (DOMAIN @) \cup {track} |->
                                              IF t = track THEN unwrap(new_path)
                                              ELSE run.edits[t]]]
              [] answer = "e" /\ is_none(new_path) -> [run EXCEPT !.answer = "e, none"]
              [] answer = "d" ->
                    [run EXCEPT !.answer = answer, !.i = @ + 1,
                                !.deletes = @ \cup {track}]
              [] answer = "q" -> [run EXCEPT !.answer = answer, !.i = Len(run.order)]
              [] answer = "b" ->
                    [run EXCEPT !.answer = answer, !.i = Len(run.order),
                                !.edits = EmptyMap, !.deletes = {}, !.aborted = TRUE]
              [] answer = "err" ->
                    [run EXCEPT !.answer = answer, !.phase = "exit", !.failed = TRUE]
    /\ UNCHANGED <<playlists, playcounts>>
    /\ RunOnly

\* ask_resolve_invalid_paths: one answer to the menu for the track at hand.
\* "e" comes with what the edit method returned, a relative path of a file
\* that exists or None; "err" is a failure of read_line or of flush
RunAnswer(answer, new_path) ==
    /\ run.phase = "asking"
    /\ run.i < Len(run.order)
    /\ LET track == run.order[run.i + 1]
       IN run' =
            CASE answer = "s" -> [run EXCEPT !.answer = answer, !.i = @ + 1]
              [] answer = "e" /\ ~is_none(new_path) ->
                    [run EXCEPT !.answer = answer, !.i = @ + 1,
                                !.edits = [t \in (DOMAIN @) \cup {track} |->
                                              IF t = track THEN unwrap(new_path)
                                              ELSE run.edits[t]]]
              [] answer = "e" /\ is_none(new_path) -> [run EXCEPT !.answer = "e, none"]
              [] answer = "d" ->
                    [run EXCEPT !.answer = answer, !.i = @ + 1,
                                !.deletes = @ \cup {track}]
              [] answer = "q" -> [run EXCEPT !.answer = answer, !.i = Len(run.order)]
              [] answer = "b" ->
                    [run EXCEPT !.answer = answer, !.i = Len(run.order),
                                !.edits = EmptyMap, !.deletes = {}, !.aborted = TRUE]
              [] answer = "err" ->
                    [run EXCEPT !.answer = answer, !.phase = "exit", !.failed = TRUE]
    /\ UNCHANGED <<playlists, playcounts>>
    /\ RunOnly

\* main: ask_resolve_invalid_paths has returned; the tracks marked for
\* deletion are removed from the playlists and from the playcounts
RunRemoveTracks(order) ==
    /\ run.phase = "asking"
    /\ run.i = Len(run.order)
    /\ LET done == remove_tracks_from_playlists(playlists, order, run.ignore_playlist)
       IN /\ playlists' = done.playlists
          /\ run' = [run EXCEPT
                        !.phase = "removed",
                        !.ignore_playlist =
                            remove_tracks_from_playcounts(playcounts, order,
                                                          done.ignore_playlist)]
    /\ UNCHANGED playcounts
    /\ RunOnly

\* main: the ignore playlist is written if it is modified, and the edits
\* are applied to every playlist and playcount
RunApplyEdits(outcome, order) ==
    /\ run.phase = "removed"
    /\ LET done == write(run.ignore_playlist, Playlist_lines(run.ignore_playlist),
                         run.disk.ignore, outcome)
       IN run' = IF run.ignore_playlist.is_modified
                 THEN [run EXCEPT !.phase = "renamed", !.ignore_playlist = done.self,
                                  !.disk.ignore = done.file]
                 ELSE [run EXCEPT !.phase = "renamed"]
    /\ playlists' = [i \in 1..Len(playlists) |->
                        Playlist_bulk_rename(playlists[i], run.edits, order).self]
    /\ playcounts' = [i \in 1..Len(playcounts) |->
                         Playcount_bulk_rename(playcounts[i], run.edits, order).self]
    /\ RunOnly

\* main: every playlist and playcount that is modified is written, and main
\* returns
RunWriteModified(playlist_outcomes, playcount_outcomes) ==
    /\ run.phase = "renamed"
    /\ LET wrote(i) == write(playlists[i], Playlist_lines(playlists[i]),
                             run.disk.playlists[i], playlist_outcomes[i])
           counted(i) == write(playcounts[i], Playcount_lines(playcounts[i]),
                               run.disk.playcounts[i], playcount_outcomes[i])
       IN /\ playlists' = [i \in 1..Len(playlists) |->
                              IF playlists[i].is_modified THEN wrote(i).self
                              ELSE playlists[i]]
          /\ playcounts' = [i \in 1..Len(playcounts) |->
                               IF playcounts[i].is_modified THEN counted(i).self
                               ELSE playcounts[i]]
          /\ run' = [run EXCEPT
                        !.phase = "exit",
                        !.written = {i \in 1..Len(playlists) : playlists[i].is_modified},
                        !.disk.playlists = [i \in 1..Len(playlists) |->
                                               IF playlists[i].is_modified THEN wrote(i).file
                                               ELSE @[i]],
                        !.disk.playcounts = [i \in 1..Len(playcounts) |->
                                                IF playcounts[i].is_modified
                                                THEN counted(i).file
                                                ELSE @[i]]]
    /\ RunOnly

\* the outcomes of the writes of the files of a Vec: those of a file that is
\* not written are of no account
OutcomesOf(collections, lines(_)) ==
    {outcomes \in [1..Len(collections) ->
                      UNION {WriteOutcomes(lines(collections[i])) :
                                i \in 1..Len(collections)}] :
        \A i \in 1..Len(collections) :
            IF collections[i].is_modified
            THEN outcomes[i] \in WriteOutcomes(lines(collections[i]))
            ELSE outcomes[i] = [failed |-> "none", written |-> Len(lines(collections[i]))]}

NextRun ==
    \/ \E orders \in OrdersOf(playlists) : RunFixPlaylists(orders)
    \/ \E orders \in OrdersOf(playcounts) : RunFixPlaycounts(orders)
    \/ RunNothingToFix
    \/ \E order \in Orders(run.invalid_tracks) : RunAsk(order)
    \/ \E answer \in {"s", "e", "d", "q", "b", "err"} :
          \E new_path \in {None, Some(<<"a">>), Some(<<"b">>)} :
             RunAnswer(answer, new_path)
    \/ \E order \in Orders(run.deletes) : RunRemoveTracks(order)
    \/ \E outcome \in WriteOutcomes(Playlist_lines(run.ignore_playlist)) :
          \E order \in Orders(DOMAIN run.edits) : RunApplyEdits(outcome, order)
    \/ \E playlist_outcomes \in OutcomesOf(playlists, Playlist_lines) :
          \E playcount_outcomes \in OutcomesOf(playcounts, Playcount_lines) :
             RunWriteModified(playlist_outcomes, playcount_outcomes)

SpecRun == InitRun /\ [][NextRun]_vars

-----------------------------------------------------------------------------
(* SpecAsk: ask_resolve_invalid_paths (src/bin/plfix.rs) on a set of at    *)
(* most MaxAskLen invalid tracks, under every sequence of answers, up to   *)
(* its return.                                                             *)

\* the invalid tracks that main may have found
MissingTracks == {[path |-> <<"c">>], [path |-> <<"d">>], [path |-> <<"e">>]}

InitAsk ==
    /\ kind = "Playlist"
    /\ tracks = <<>>
    /\ entries = <<>>
    /\ tracks_map = EmptyMap
    /\ is_modified = FALSE
    /\ panicked = FALSE
    /\ integrity_ok = TRUE
    /\ file = NoFile
    /\ changed = FALSE
    /\ call = [op |-> "main"]
    /\ ret = Unit
    /\ playlists = <<>>
    /\ playcounts = <<>>
    /\ pretend = FALSE
    /\ \E invalid_tracks \in SUBSET MissingTracks :
          /\ invalid_tracks # {}
          /\ Cardinality(invalid_tracks) <= MaxAskLen
          /\ \E order \in Orders(invalid_tracks) :
                run = [phase |-> "asking", invalid_tracks |-> invalid_tracks,
                       order |-> order, i |-> 0, edits |-> EmptyMap, deletes |-> {},
                       answer |-> "", aborted |-> FALSE, failed |-> FALSE]
    /\ picker = NoPicker

\* ask_resolve_invalid_paths: the loop is over; the assertion that edits and
\* deletes are disjoint is made and Ok((edits, deletes)) returned
AskReturn ==
    /\ run.phase = "asking"
    /\ run.i = Len(run.order)
    /\ run' = [run EXCEPT !.phase = IF (DOMAIN run.edits) \cap run.deletes = {}
                                    THEN "returned" ELSE "panicked"]
    /\ UNCHANGED <<playlists, playcounts>>
    /\ RunOnly

NextAsk ==
    \/ \E answer \in {"s", "e", "d", "q", "b", "err"} :
          \E new_path \in {None, Some(<<"a">>), Some(<<"b">>)} :
             RunAnswer(answer, new_path)
    \/ AskReturn

SpecAsk == InitAsk /\ [][NextAsk]_vars

-----------------------------------------------------------------------------
(* SpecCategorize: an item of plcategorize (src/bin/plcategorize.rs): the  *)
(* object is the playlist of the item, `file` its file, which other        *)
(* programs change, and `run` holds the state of the item, the file of     *)
(* CURRENT_TRACK and whether the reload of the last callback succeeded.    *)

\* plcategorize's on_refresh: the playlist and the state returned
plcategorize_on_refresh(state, playlist, f, current) ==
    LET reloaded == Playlist_reload(playlist, f)
    IN IF ~reloaded.ok THEN [playlist |-> reloaded.self, reloaded |-> FALSE, state |-> 2]
       ELSE IF ~is_none(current)
               /\ Playlist_contains(reloaded.self, Track_new(unwrap(current)))
       THEN [playlist |-> reloaded.self, reloaded |-> TRUE, state |-> 1]
       ELSE [playlist |-> reloaded.self, reloaded |-> TRUE, state |-> 0]

\* plcategorize's on_select: the playlist, its file and the state returned;
\* `outcome` is the outcome of the write, if one is made
plcategorize_on_select(state, playlist, f, current, outcome) ==
    LET reloaded == Playlist_reload(playlist, f)
        track == Track_new(unwrap(current))
        pushed == Playlist_push(reloaded.self, track.path)
        added == write(pushed, Playlist_lines(pushed), f, outcome)
        removed == Playlist_remove_all(reloaded.self, track).self
        dropped == write(removed, Playlist_lines(removed), f, outcome)
        Same(st) == [playlist |-> reloaded.self, file |-> f, reloaded |-> reloaded.ok,
                     state |-> st]
    IN IF ~reloaded.ok THEN Same(2)
       ELSE IF is_none(current) THEN Same(0)
       ELSE CASE state = 0 ->
                    IF Playlist_contains(reloaded.self, track) THEN Same(1)
                    ELSE [playlist |-> added.self, file |-> added.file, reloaded |-> TRUE,
                          state |-> IF outcome.failed = "none" THEN 1 ELSE 0]
              [] state = 1 ->
                    [playlist |-> dropped.self, file |-> dropped.file, reloaded |-> TRUE,
                     state |-> IF outcome.failed = "none" THEN 0 ELSE 1]
              [] state = 2 -> Same(2)

\* the lines that on_select hands to write(), none if it does not write
plcategorize_writes(state, playlist, f, current) ==
    LET reloaded == Playlist_reload(playlist, f)
        track == Track_new(unwrap(current))
    IN IF ~reloaded.ok \/ is_none(current) THEN <<>>
       ELSE IF state = 0 /\ ~Playlist_contains(reloaded.self, track)
       THEN Playlist_lines(Playlist_push(reloaded.self, track.path))
       ELSE IF state = 1
       THEN Playlist_lines(Playlist_remove_all(reloaded.self, track).self)
       ELSE <<>>

\* what may be found at the path of the playlist of the item
CategorizeFiles ==
    {NoFile, File(<<>>), File(<< <<"a">> >>), File(<< <<"b">>, <<"a">> >>),
     File(<< <<"a">>, <<"b">>, <<"a">> >>), File(<< <<"b">>, InvalidUtf8 >>)}

\* the file of CURRENT_TRACK: the song that MPD plays, if any
CurrentFiles == {None, Some(<<"a">>), Some(<<"b">>)}

\* app_init: TuiPickerState::new has opened the playlist, in state 0
InitCategorize ==
    /\ kind = "Playlist"
    /\ file \in {f \in CategorizeFiles : CanBeRead(f)}
    /\ tracks = Playlist_load(Playlist_new, file.lines).tracks
    /\ entries = <<>>
    /\ tracks_map = Playlist_load(Playlist_new, file.lines).tracks_map
    /\ is_modified = FALSE
    /\ panicked = FALSE
    /\ integrity_ok = TRUE
    /\ changed = FALSE
    /\ call = [op |-> "app_init"]
    /\ ret = Unit
    /\ playlists = <<>>
    /\ playcounts = <<>>
    /\ pretend = FALSE
    /\ \E current \in CurrentFiles :
          run = [phase |-> "plcategorize", state |-> 0, current |-> current,
                 reloaded |-> TRUE]
    /\ picker = NoPicker

\* what a step of the item leaves alone
CategorizeOnly == UNCHANGED <<changed, playlists, playcounts, pretend, picker>>

\* Action::Refresh: CURRENT_TRACK is read anew from MPD and the item is
\* refreshed, which calls on_refresh
CategorizeRefresh(current) ==
    /\ ~panicked
    /\ LET done == plcategorize_on_refresh(run.state, Playlist_self, file, current)
       IN /\ Playlist_becomes(done.playlist)
          /\ run' = [run EXCEPT !.state = done.state, !.current = current,
                                !.reloaded = done.reloaded]
    /\ Traced([op |-> "on_refresh", state |-> run.state], Unit)
    /\ UNCHANGED file
    /\ CategorizeOnly

\* the item is selected, which calls on_select
CategorizeSelect(outcome) ==
    /\ ~panicked
    /\ LET done == plcategorize_on_select(run.state, Playlist_self, file, run.current,
                                          outcome)
       IN /\ Playlist_becomes(done.playlist)
          /\ file' = done.file
          /\ run' = [run EXCEPT !.state = done.state, !.reloaded = done.reloaded]
    /\ Traced([op |-> "on_select", state |-> run.state, outcome |-> outcome], Unit)
    /\ CategorizeOnly

\* another program replaces or removes the file of the playlist
CategorizeFileChanges(f) ==
    /\ f # file
    /\ file' = f
    /\ Traced([op |-> "file"], Unit)
    /\ UNCHANGED <<object, kind, run>>
    /\ CategorizeOnly

NextCategorize ==
    \/ \E current \in CurrentFiles : CategorizeRefresh(current)
    \/ \E outcome \in WriteOutcomes(plcategorize_writes(run.state, Playlist_self, file,
                                                        run.current)) :
          CategorizeSelect(outcome)
    \/ \E f \in CategorizeFiles : CategorizeFileChanges(f)

SpecCategorize == InitCategorize /\ [][NextCategorize]_vars

-----------------------------------------------------------------------------
(* SpecReload: an object made by new(fpath), with any of the files at its  *)
(* path, under push, write and reload, each recorded with the sequence and *)
(* the dirty flag it was made on and its result.                           *)

NextReload ==
    \/ \E fpath \in FPaths :
          /\ Len(tracks) < MaxLen
          /\ PlaylistPush(fpath)
          /\ Traced([op |-> "push", before |-> sequence, modified |-> is_modified], Unit)
    \/ \E outcome \in WriteOutcomes(tracks) :
          /\ PlaylistWrite(outcome)
          /\ Traced([op |-> "write", before |-> sequence, modified |-> is_modified,
                     prior |-> [op |-> call.op, ok |-> ret.ok]],
                    Ret(outcome.failed = "none", 0, FALSE))
    \/ /\ PlaylistReload
       /\ Traced([op |-> "reload", before |-> sequence, modified |-> is_modified],
                 Ret(Playlist_reload(Playlist_self, file).ok, 0, FALSE))
    \/ \E fpath \in FPaths :
          /\ Len(entries) < MaxLen
          /\ PlaycountPush(fpath)
          /\ Traced([op |-> "push", before |-> sequence, modified |-> is_modified],
                    Ret(Playcount_push(Playcount_self, fpath).ok, 0, FALSE))
    \/ \E outcome \in WriteOutcomes(entries) :
          /\ PlaycountWrite(outcome)
          /\ Traced([op |-> "write", before |-> sequence, modified |-> is_modified,
                     prior |-> [op |-> call.op, ok |-> ret.ok]],
                    Ret(outcome.failed = "none", 0, FALSE))
    \/ /\ PlaycountReload
       /\ Traced([op |-> "reload", before |-> sequence, modified |-> is_modified],
                 Ret(Playcount_reload(Playcount_self, file).ok, 0, FALSE))

SpecReload == Init /\ [][NextReload]_vars

-----------------------------------------------------------------------------
(* The picker (src/widgets/tui_picker.rs).  A String is the sequence of    *)
(* its characters.  A line of the mappings file is the sequence of the     *)
(* pieces that its tabs separate.  An item is the record of its shortcut,  *)
(* the name of its playlist, its state and its is_refreshing; the Vec of   *)
(* the picker holds None or Some(item).                                    *)

\* the callbacks given to TuiPickerState::new: ones whose result tells how
\* often each of them ran
on_refresh(state) == (state + 1) % 3

on_select(state) == (state + 2) % 3

TuiPickerItemState_new(name, shortcut, state) ==
    [name |-> name, shortcut |-> shortcut, state |-> state, is_refreshing |-> FALSE]

\* TuiPickerItemState::refresh: the item after the call and what it returns
TuiPickerItemState_refresh(self) ==
    IF ~self.is_refreshing
    THEN [self |-> [self EXCEPT !.is_refreshing = TRUE], ret |-> FALSE]
    ELSE [self |-> [self EXCEPT !.state = on_refresh(self.state), !.is_refreshing = FALSE],
          ret |-> TRUE]

TuiPickerItemState_select(self) == [self EXCEPT !.state = on_select(self.state)]

\* a test that lets every pair of shortcuts through
shortcuts_never_collide(shortcut, other_shortcut) == FALSE

\* the test of TuiPickerState::new on two shortcuts
shortcuts_collide(shortcut, other_shortcut) ==
    str_starts_with(shortcut, other_shortcut) \/ str_starts_with(other_shortcut, shortcut)

\* the empty line of the mappings file
EmptyLine == << <<>> >>

\* TuiPickerState::new on the lines of the mappings file; every playlist
\* named in the file can be opened
TuiPickerState_new(lines, state) ==
    LET RECURSIVE Read(_, _)
        Read(k, items) ==
            IF k > Len(lines) THEN [ok |-> TRUE, items |-> items]
            ELSE IF lines[k] = EmptyLine THEN Read(k + 1, Append(items, None))
            ELSE IF Len(lines[k]) < 2 THEN [ok |-> FALSE, items |-> items]
            ELSE IF \E i \in 1..Len(items) :
                        /\ ~is_none(items[i])
                        /\ shortcuts_collide(lines[k][2], unwrap(items[i]).shortcut)
                 THEN [ok |-> FALSE, items |-> items]
            ELSE Read(k + 1,
                      Append(items, Some(TuiPickerItemState_new(lines[k][1], lines[k][2], state))))
        read == Read(1, <<>>)
    IN [ok |-> read.ok,
        self |-> [items |-> read.items, scroll_amount |-> 0, is_refreshing |-> FALSE,
                  did_select |-> FALSE, panicked |-> FALSE]]

\* a refresh that does not record that it has started
TuiPickerState_refresh_unrecorded(self) ==
    LET RECURSIVE Each(_, _)
        Each(k, items) ==
            IF k > Len(items) THEN [items |-> items, failed |-> FALSE]
            ELSE IF is_none(items[k]) THEN Each(k + 1, items)
            ELSE LET r == TuiPickerItemState_refresh(unwrap(items[k]))
                     now == [items EXCEPT ![k] = Some(r.self)]
                 IN IF r.ret # self.is_refreshing THEN [items |-> now, failed |-> TRUE]
                    ELSE Each(k + 1, now)
        each == Each(1, self.items)
    IN [self |-> [self EXCEPT !.items = each.items,
                              !.is_refreshing = FALSE,
                              !.panicked = each.failed],
        ret |-> self.is_refreshing /\ ~each.failed]

\* TuiPickerState::refresh: every item is refreshed in turn, and an item
\* that returns something else than the picker expects fails the assert!
TuiPickerState_refresh(self) ==
    LET RECURSIVE Each(_, _)
        Each(k, items) ==
            IF k > Len(items) THEN [items |-> items, failed |-> FALSE]
            ELSE IF is_none(items[k]) THEN Each(k + 1, items)
            ELSE LET r == TuiPickerItemState_refresh(unwrap(items[k]))
                     now == [items EXCEPT ![k] = Some(r.self)]
                 IN IF r.ret # self.is_refreshing THEN [items |-> now, failed |-> TRUE]
                    ELSE Each(k + 1, now)
        each == Each(1, self.items)
    IN IF each.failed
       THEN [self |-> [self EXCEPT !.items = each.items, !.panicked = TRUE], ret |-> FALSE]
       ELSE [self |-> [self EXCEPT !.items = each.items,
                                   !.is_refreshing = ~self.is_refreshing],
             ret |-> self.is_refreshing]

\* TuiPickerState::update_input
TuiPickerState_update_input(self, input) ==
    LET RECURSIVE Each(_)
        Each(k) ==
            IF k > Len(self.items) THEN [self |-> [self EXCEPT !.did_select = FALSE], ret |-> FALSE]
            ELSE IF is_none(self.items[k]) THEN Each(k + 1)
            ELSE LET item == unwrap(self.items[k])
                 IN IF item.shortcut = input
                    THEN [self |-> [self EXCEPT
                                       !.items[k] = Some(TuiPickerItemState_select(item)),
                                       !.did_select = TRUE],
                          ret |-> FALSE]
                    ELSE IF str_starts_with(item.shortcut, input)
                    THEN [self |-> [self EXCEPT !.did_select = FALSE], ret |-> TRUE]
                    ELSE Each(k + 1)
    IN Each(1)

\* the items of the picker that are Some, as the positions of the Vec
SomeItems(self) == {k \in 1..Len(self.items) : ~is_none(self.items[k])}

\* the width that TuiPickerState::new gives every item: the widest of
\* shortcut, space, name and two more columns
item_width(self) ==
    LET Width(k) == Len(unwrap(self.items[k]).shortcut) + 1 + Len(unwrap(self.items[k]).name) + 2
    IN CHOOSE w \in {Width(k) : k \in SomeItems(self)} :
           \A k \in SomeItems(self) : Width(k) <= w

\* usize::clamp
clamp(n, lo, hi) == IF n < lo THEN lo ELSE IF n > hi THEN hi ELSE n

\* usize::saturating_sub
saturating_sub(n, m) == IF n < m THEN 0 ELSE n - m

\* usize::div_ceil
div_ceil(n, d) == (n + d - 1) \div d

\* TuiPickerState::compute_n_columns
compute_n_columns(self, area_width) ==
    IF SomeItems(self) = {} THEN 0
    ELSE clamp(area_width \div item_width(self), 1, 5)

\* TuiPickerState::compute_paragraph_ranges, with the i - 1 of a None at
\* position 0 as the integer below 0
compute_paragraph_ranges(self) ==
    LET n == Len(self.items)
        RECURSIVE Ranges(_, _)
        Ranges(i, par_ranges) ==
            IF i >= n THEN par_ranges
            ELSE IF is_none(self.items[i + 1])
            THEN Ranges(i + 1,
                        Append([par_ranges EXCEPT ![Len(par_ranges)] = <<@[1], i - 1>>],
                               <<i + 1, n>>))
            ELSE Ranges(i + 1, par_ranges)
        ranges == Ranges(0, << <<0, n>> >>)
    IN IF n = 0 THEN << <<0, 0>> >>
       ELSE [ranges EXCEPT ![Len(ranges)] = <<@[1], n - 1>>]

\* the number of lines that render composes, and TuiPickerState::height: for
\* each paragraph its lines and one separator
RECURSIVE text_lines(_, _)
text_lines(par_ranges, n_cols) ==
    IF par_ranges = <<>> THEN 0
    ELSE div_ceil(Head(par_ranges)[2] - Head(par_ranges)[1] + 1, n_cols) + 1
            + text_lines(Tail(par_ranges), n_cols)

\* TuiPicker::render on an area.  With no item that is Some, the number of
\* columns is 0 and div_ceil divides by it.  A paragraph without items (an
\* empty line that starts or ends the file or follows another) makes
\* par_end - par_begin + 1 wrap around to 0, or panic in a build that checks
\* overflow.  Otherwise scroll_amount is clamped to the lines that do not fit.
TuiPicker_render(self, area, overflow_checks) ==
    LET n_cols == compute_n_columns(self, area.width)
        par_ranges == compute_paragraph_ranges(self)
        wraps == \E r \in Range(par_ranges) : r[2] < r[1]
    IN IF n_cols = 0 \/ (wraps /\ overflow_checks) THEN [self EXCEPT !.panicked = TRUE]
       ELSE [self EXCEPT !.scroll_amount =
                clamp(self.scroll_amount, 0,
                      saturating_sub(text_lines(par_ranges, n_cols), area.height))]

-----------------------------------------------------------------------------
(* SpecPicker: a picker built from any mappings file of at most            *)
(* MaxPickerLen lines, under refresh, update_input, render and the         *)
(* scrolling of the programs, each recorded with its result.               *)

\* the shortcuts and the inputs: the strings of at most two of a and b
PickerStrings == UNION {[1..n -> {"a", "b"}] : n \in 0..2}

\* the lines of the mappings file: the empty line, a name without shortcut,
\* and the playlist p with a shortcut
MappingLines == {EmptyLine, << <<"p">> >>} \cup {<< <<"p">>, shortcut >> : shortcut \in PickerStrings}

\* the pickers that TuiPickerState::new builds
BuiltPickers ==
    {TuiPickerState_new(lines, 0).self :
        lines \in {ls \in UNION {[1..n -> MappingLines] : n \in 0..MaxPickerLen} :
                      TuiPickerState_new(ls, 0).ok}}

\* the areas that the picker is rendered on
Areas == {[width |-> 5, height |-> 1], [width |-> 12, height |-> 3]}

\* a call that returns the boolean b
Returned(b) == Ret(TRUE, 0, b)

InitPicker ==
    /\ kind = "Playlist"
    /\ tracks = <<>>
    /\ entries = <<>>
    /\ tracks_map = EmptyMap
    /\ is_modified = FALSE
    /\ panicked = FALSE
    /\ integrity_ok = TRUE
    /\ file = NoFile
    /\ changed = FALSE
    /\ call = [op |-> "new"]
    /\ ret = Unit
    /\ playlists = <<>>
    /\ playcounts = <<>>
    /\ pretend = FALSE
    /\ run = NoRun
    /\ picker \in BuiltPickers

\* the rest of the state, which no call of the picker touches
PickerOnly == UNCHANGED <<object, kind, file, changed, playlists, playcounts, pretend, run>>

PickerRefresh ==
    /\ ~picker.panicked
    /\ picker' = TuiPickerState_refresh(picker).self
    /\ Traced([op |-> "refresh"], Returned(TuiPickerState_refresh(picker).ret))
    /\ PickerOnly

PickerUpdateInput(input) ==
    /\ ~picker.panicked
    /\ picker' = TuiPickerState_update_input(picker, input).self
    /\ Traced([op |-> "update_input", input |-> input],
              Returned(TuiPickerState_update_input(picker, input).ret))
    /\ PickerOnly

PickerRender(area, overflow_checks) ==
    /\ ~picker.panicked
    /\ picker' = TuiPicker_render(picker, area, overflow_checks)
    /\ Traced([op |-> "render"], Unit)
    /\ PickerOnly

\* the programs scroll by one line: scroll_amount is a public field
PickerScroll(down) ==
    /\ ~picker.panicked
    /\ down => picker.scroll_amount < MaxScroll
    /\ picker' = [picker EXCEPT !.scroll_amount =
                     IF down THEN @ + 1 ELSE saturating_sub(@, 1)]
    /\ Traced([op |-> "scroll"], Unit)
    /\ PickerOnly

NextPicker ==
    \/ PickerRefresh
    \/ \E input \in PickerStrings : PickerUpdateInput(input)
    \/ \E area \in Areas : \E overflow_checks \in BOOLEAN : PickerRender(area, overflow_checks)
    \/ \E down \in BOOLEAN : PickerScroll(down)

SpecPicker == InitPicker /\ [][NextPicker]_vars

-----------------------------------------------------------------------------
(* SpecLoop: the main loops of plcategorize and plfilter                   *)
(* (src/bin/plcategorize.rs, src/bin/plfilter.rs), for at most             *)
(* MaxIterations iterations.  `picker` is app.picker_state and `run` holds *)
(* the program, the position in main, the item of its own (the delete item *)
(* or the MPD item), the input, whether CURRENT_TRACK has a file, the      *)
(* number of the iteration, whether a refresh is under way by what         *)
(* refresh() last returned, and the iteration in which it was started.     *)
(* The callbacks of the items are those of SpecPicker, and what            *)
(* generate_filtered_playlist writes is left out: only its result counts.  *)

\* the keys of the events, with the characters a, b, q and .
Keys == {"Esc", "Up", "Down", "Backspace", "Delete", "F1",
         "ctrl-c", "ctrl-u", "ctrl-d", "a", "b", "q", "."}

\* KeyCode::Char(c) without modifiers
Chars == {"a", "b", "q", "."}

\* plcategorize's handle_key_event: the Action and the input after it
plcategorize_handle_key_event(key, input, has_selection) ==
    LET Is(action) == [action |-> action, input |-> input]
    IN IF key = "Esc" THEN (IF input # <<>> THEN Is("ClearInput") ELSE Is("Refresh"))
       ELSE IF key = "Up" THEN Is("ScrollUp")
       ELSE IF key = "Down" THEN Is("ScrollDown")
       ELSE IF key = "q" /\ input = <<>> THEN Is("Quit")
       ELSE IF has_selection /\ key = "Backspace" /\ input # <<>> THEN Is("DelChar")
       ELSE IF has_selection /\ key = "Delete" /\ input = <<>> THEN Is("ToggleDelete")
       ELSE IF has_selection /\ key \in Chars
       THEN [action |-> "NewChar", input |-> Append(input, key)]
       ELSE Is("Ignore")

\* plfilter's handle_key_event
plfilter_handle_key_event(key, input) ==
    LET Is(action) == [action |-> action, input |-> input]
    IN IF key = "Esc" THEN (IF input # <<>> THEN Is("ClearInput") ELSE Is("Refresh"))
       ELSE IF key = "Up" THEN Is("ScrollUp")
       ELSE IF key = "Down" THEN Is("ScrollDown")
       ELSE IF key = "ctrl-u" THEN Is("ScrollUpMore")
       ELSE IF key = "ctrl-d" THEN Is("ScrollDownMore")
       ELSE IF key = "q" /\ input = <<>> THEN Is("Quit")
       ELSE IF key = "ctrl-c" THEN Is("Quit")
       ELSE IF key = "Backspace" /\ input # <<>> THEN Is("DelChar")
       ELSE IF key = "." /\ input = <<>> THEN Is("ToggleMPD")
       ELSE IF key \in Chars THEN [action |-> "NewChar", input |-> Append(input, key)]
       ELSE Is("Ignore")

\* the match on the Action in main: the picker, the item, the input and the
\* position after it; `started` tells whether a refresh was started and
\* `generated` whether generate_filtered_playlist returns Ok
handle_action(program, action, input, self, item, generated) ==
    LET Goes(to, p, i, inp, started) ==
            [at |-> to, picker |-> p, item |-> i, input |-> inp, started |-> started]
        updated == TuiPickerState_update_input(self, input)
        refreshed == TuiPickerState_refresh(self)
        both == program = "plcategorize"
    IN CASE action = "Ignore" -> Goes("draw", self, item, input, FALSE)
         [] action = "Quit" -> Goes("exit", self, item, input, FALSE)
         [] action = "NewChar" ->
               IF program = "plfilter" /\ updated.self.did_select /\ ~generated
               THEN Goes("exit", updated.self, item,
                         IF updated.ret THEN input ELSE <<>>, FALSE)
               ELSE Goes("draw", updated.self, item,
                         IF updated.ret THEN input ELSE <<>>, FALSE)
         [] action = "DelChar" ->
               Goes("draw", self, item, SubSeq(input, 1, Len(input) - 1), FALSE)
         [] action \in {"ToggleDelete", "ToggleMPD"} ->
               Goes(IF program = "plfilter" /\ ~generated THEN "exit" ELSE "draw",
                    self, TuiPickerItemState_select(item), <<>>, FALSE)
         [] action = "Refresh" ->
               Goes(IF refreshed.self.panicked THEN "exit" ELSE "draw", refreshed.self,
                    IF both THEN TuiPickerItemState_refresh(item).self ELSE item,
                    input, ~refreshed.ret)
         [] action = "ClearInput" -> Goes("draw", self, item, <<>>, FALSE)
         [] action = "ScrollUp" ->
               Goes("draw", [self EXCEPT !.scroll_amount = saturating_sub(@, 1)], item,
                    input, FALSE)
         [] action = "ScrollDown" ->
               Goes("draw", [self EXCEPT !.scroll_amount = @ + 1], item, input, FALSE)
         [] action = "ScrollUpMore" ->
               Goes("draw", [self EXCEPT !.scroll_amount = saturating_sub(@, 10)], item,
                    input, FALSE)
         [] action = "ScrollDownMore" ->
               Goes("draw", [self EXCEPT !.scroll_amount = @ + 10], item, input, FALSE)

\* the mappings files of the loops: empty, one playlist, two playlists, of
\* which one has a shortcut of two characters
LoopPickers ==
    {TuiPickerState_new(lines, 0).self :
        lines \in {<<>>,
                   << << <<"p">>, <<"a">> >> >>,
                   << << <<"p">>, <<"a", "b">> >>, << <<"p">>, <<"b">> >> >>}}

\* app_init has returned
InitLoop ==
    /\ kind = "Playlist"
    /\ tracks = <<>>
    /\ entries = <<>>
    /\ tracks_map = EmptyMap
    /\ is_modified = FALSE
    /\ panicked = FALSE
    /\ integrity_ok = TRUE
    /\ file = NoFile
    /\ changed = FALSE
    /\ call = [op |-> "app_init"]
    /\ ret = Unit
    /\ playlists = <<>>
    /\ playcounts = <<>>
    /\ pretend = FALSE
    /\ picker \in LoopPickers
    /\ \E program \in {"plcategorize", "plfilter"} : \E has_selection \in BOOLEAN :
          run = [phase |-> "loop", program |-> program, at |-> "start",
                 item |-> TuiPickerItemState_new(
                              <<"item">>,
                              IF program = "plcategorize" THEN <<"DEL">> ELSE <<".">>, 0),
                 input |-> <<>>, has_selection |-> has_selection, iteration |-> 0,
                 in_progress |-> FALSE, started |-> 0]

\* what a step of the loop leaves alone
LoopOnly == UNCHANGED <<object, kind, file, changed, playlists, playcounts, pretend>>

\* main: the refresh before the loop
LoopStart ==
    /\ run.at = "start"
    /\ LET refreshed == TuiPickerState_refresh(picker)
       IN /\ picker' = refreshed.self
          /\ run' = [run EXCEPT
                        !.at = IF refreshed.self.panicked THEN "exit" ELSE "draw",
                        !.item = IF run.program = "plcategorize"
                                 THEN TuiPickerItemState_refresh(@).self ELSE @,
                        !.in_progress = ~refreshed.ret,
                        !.started = 0]
    /\ Traced([op |-> "start"], Unit)
    /\ LoopOnly

\* loop: terminal.draw, which fails or draws; plcategorize renders the
\* picker only when CURRENT_TRACK has a file
LoopDraw(area, overflow_checks, ok) ==
    /\ run.at = "draw"
    /\ run.iteration < MaxIterations
    /\ LET renders == run.program = "plfilter" \/ run.has_selection
           rendered == IF ok /\ renders THEN TuiPicker_render(picker, area, overflow_checks)
                       ELSE picker
       IN /\ picker' = rendered
          /\ run' = [run EXCEPT !.at = IF ok /\ ~rendered.panicked THEN "handle" ELSE "exit",
                                !.iteration = @ + 1]
    /\ Traced([op |-> "draw"], Unit)
    /\ LoopOnly

\* the refresh of the delete item is left out of the loop
LoopRefreshing_picker_only ==
    /\ run.at = "handle"
    /\ picker.is_refreshing
    /\ LET refreshed == TuiPickerState_refresh(picker)
       IN /\ picker' = refreshed.self
          /\ run' = [run EXCEPT
                        !.at = IF refreshed.self.panicked THEN "exit" ELSE "draw",
                        !.in_progress = ~refreshed.ret]
    /\ Traced([op |-> "refresh"], Unit)
    /\ LoopOnly

\* loop: the picker is refreshing, and refresh is called again
LoopRefreshing ==
    /\ run.at = "handle"
    /\ picker.is_refreshing
    /\ LET refreshed == TuiPickerState_refresh(picker)
       IN /\ picker' = refreshed.self
          /\ run' = [run EXCEPT
                        !.at = IF refreshed.self.panicked THEN "exit" ELSE "draw",
                        !.item = IF run.program = "plcategorize"
                                 THEN TuiPickerItemState_refresh(@).self ELSE @,
                        !.in_progress = ~refreshed.ret]
    /\ Traced([op |-> "refresh"], Unit)
    /\ LoopOnly

\* loop: the picker is not refreshing: an event is read, which may fail, and
\* handled; Action::Refresh of plcategorize reads CURRENT_TRACK anew
LoopEvent(read, key, has_selection, generated) ==
    /\ run.at = "handle"
    /\ ~picker.is_refreshing
    /\ IF ~read
       THEN /\ run' = [run EXCEPT !.at = "exit"]
            /\ UNCHANGED picker
            /\ Traced([op |-> "event", action |-> "Err"], Unit)
       ELSE LET handled == IF run.program = "plcategorize"
                           THEN plcategorize_handle_key_event(key, run.input,
                                                              run.has_selection)
                           ELSE plfilter_handle_key_event(key, run.input)
                done == handle_action(run.program, handled.action, handled.input, picker,
                                      run.item, generated)
            IN /\ picker' = done.picker
               /\ run' = [run EXCEPT
                             !.at = done.at, !.item = done.item, !.input = done.input,
                             !.has_selection =
                                 IF run.program = "plcategorize"
                                    /\ handled.action = "Refresh"
                                 THEN has_selection ELSE @,
                             !.in_progress = IF handled.action = "Refresh"
                                             THEN done.started ELSE @,
                             !.started = IF handled.action = "Refresh" /\ done.started
                                         THEN run.iteration ELSE @]
               /\ Traced([op |-> "event", action |-> handled.action], Unit)
    /\ LoopOnly

NextLoop ==
    \/ LoopStart
    \/ \E area \in Areas : \E overflow_checks, ok \in BOOLEAN :
          LoopDraw(area, overflow_checks, ok)
    \/ LoopRefreshing
    \/ \E read, has_selection, generated \in BOOLEAN : \E key \in Keys :
          LoopEvent(read, key, has_selection, generated)

SpecLoop == InitLoop /\ [][NextLoop]_vars

-----------------------------------------------------------------------------
(* SpecFilter: the items of plfilter (src/bin/plfilter.rs) and the         *)
(* playlist it generates.  `playlists` holds the playlists of the items of *)
(* the picker, of at most MaxFilterLen lines, and `run` their states, the  *)
(* state of the MPD item, the library, the MPD queue and the file          *)
(* .Filtered.m3u.                                                          *)

\* plfilter's on_refresh: `opened` is what Playlist::open gives, None for Err
plfilter_on_refresh(state, playlist, opened) ==
    IF is_none(opened) THEN [playlist |-> playlist, state |-> 3]
    ELSE [playlist |-> unwrap(opened), state |-> state]

\* plfilter's on_select
plfilter_on_select(state) == IF state = 3 THEN state ELSE (state + 1) % 3

\* TuiPickerState::get_playlists_with_state, which plfilter calls and whose
\* body is not in the sources: by its name and use, the playlists of the
\* items whose state is the given one, in the order of the items
get_playlists_with_state(pls, states, state) ==
    LET RECURSIVE Each(_)
        Each(k) == IF k > Len(pls) THEN <<>>
                   ELSE IF states[k] = state THEN <<pls[k]>> \o Each(k + 1)
                   ELSE Each(k + 1)
    IN Each(1)

\* the tracks of a set that every playlist of a sequence holds
RECURSIVE retain_contained(_, _)
retain_contained(set, pls) ==
    IF pls = <<>> THEN set
    ELSE retain_contained({x \in set : Playlist_contains(Head(pls), x)}, Tail(pls))

\* the tracks of a set that no playlist of a sequence holds
RECURSIVE retain_absent(_, _)
retain_absent(set, pls) ==
    IF pls = <<>> THEN set
    ELSE retain_absent({x \in set : ~Playlist_contains(Head(pls), x)}, Tail(pls))

\* a filter in which the tracks of the queue count only while no playlist
\* is in state 1 or 2
filtered_tracks_playlists_first(pls, states, mpd_state, library, queue) ==
    LET all == {Track_new(library[i]) : i \in 1..Len(library)}
        mpd_tracks == {Track_new(queue[i]) : i \in 1..Len(queue)}
        green == retain_contained(all, get_playlists_with_state(pls, states, 1))
        red == retain_absent(green, get_playlists_with_state(pls, states, 2))
    IN IF \E k \in 1..Len(states) : states[k] \in {1, 2} THEN red
       ELSE IF mpd_state = 1 THEN {x \in red : x \in mpd_tracks}
       ELSE IF mpd_state = 2 THEN {x \in red : x \notin mpd_tracks}
       ELSE red

\* the HashSet of tracks that generate_filtered_playlist is left with
filtered_tracks(pls, states, mpd_state, library, queue) ==
    LET all == {Track_new(library[i]) : i \in 1..Len(library)}
        mpd_tracks == IF mpd_state \in {1, 2}
                      THEN {Track_new(queue[i]) : i \in 1..Len(queue)} ELSE {}
        green == retain_contained(all, get_playlists_with_state(pls, states, 1))
        queued == IF mpd_state = 1 THEN {x \in green : x \in mpd_tracks} ELSE green
        red == retain_absent(queued, get_playlists_with_state(pls, states, 2))
    IN IF mpd_state = 2 THEN {x \in red : x \notin mpd_tracks} ELSE red

\* the playlist made by pushing the tracks in the order given
RECURSIVE push_each(_, _)
push_each(playlist, order) ==
    IF order = <<>> THEN playlist
    ELSE push_each(Playlist_push_track(playlist, Head(order)), Tail(order))

\* the orders in which generate_filtered_playlist may iterate its HashSet
FilteredOrders(pls, states, mpd_state, library, queue) ==
    Orders(filtered_tracks(pls, states, mpd_state, library, queue))

\* generate_filtered_playlist: whether it returns Ok and the file
\* .Filtered.m3u after it; `order` is the order in which the HashSet of the
\* tracks is iterated, `mpd_ok` whether MPD gives its queue, `failed` the
\* step of write() that fails, which leaves the file as it was when it is
\* its creation, and empty when it is its first line
generate_filtered_playlist(mpd_state, mpd_ok, order, failed, f) ==
    IF mpd_state \in {1, 2} /\ ~mpd_ok THEN [ok |-> FALSE, file |-> f]
    ELSE LET playlist == push_each(Playlist_new, order)
             lines == Playlist_lines(playlist)
             outcome == IF failed = "write" /\ lines = <<>>
                        THEN [failed |-> "none", written |-> 0]
                        ELSE [failed |-> failed,
                              written |-> IF failed = "none" THEN Len(lines) ELSE 0]
         IN [ok |-> outcome.failed = "none",
             file |-> write(playlist, lines, f, outcome).file]

\* what a call of generate_filtered_playlist may meet: MPD may not answer,
\* and either step of write() may fail
FilterOutcomes ==
    {[mpd_ok |-> FALSE, failed |-> "none"], [mpd_ok |-> TRUE, failed |-> "none"],
     [mpd_ok |-> TRUE, failed |-> "create"], [mpd_ok |-> TRUE, failed |-> "write"]}

\* the longest playlist of an item
MaxFilterLen == 1

\* the lines of the playlists of the items
FilterLines ==
    UNION {[1..n -> {<<"a">>, <<"b">>}] : n \in 0..MaxFilterLen}

\* the library: three tracks, one of which no playlist lists
FilterLibrary == << <<"a">>, <<"b">>, <<"d">> >>

\* the queues of MPD
FilterQueues == {<<>>, << <<"a">> >>, << <<"b">>, <<"d">>, <<"b">> >>}

\* app_init has returned: two items in state 0 and the MPD item in state 0
InitFilter ==
    /\ kind = "Playlist"
    /\ tracks = <<>>
    /\ entries = <<>>
    /\ tracks_map = EmptyMap
    /\ is_modified = FALSE
    /\ panicked = FALSE
    /\ integrity_ok = TRUE
    /\ file = NoFile
    /\ changed = FALSE
    /\ call = [op |-> "app_init"]
    /\ ret = Unit
    /\ \E first \in FilterLines : \E second \in FilterLines :
          playlists = << Playlist_open(<<"p">>, first), Playlist_open(<<"q">>, second) >>
    /\ playcounts = <<>>
    /\ pretend = FALSE
    /\ \E queue \in FilterQueues :
          run = [phase |-> "plfilter", states |-> <<0, 0>>, mpd_state |-> 0,
                 library |-> FilterLibrary, queue |-> queue, exited |-> FALSE]
    /\ picker = NoPicker

\* what a step of plfilter leaves alone
FilterOnly ==
    UNCHANGED <<object, kind, changed, playcounts, pretend, picker>>

\* generate_filtered_playlist and what main does with its result
FilterGenerate(states, mpd_state, met) ==
    \E order \in FilteredOrders(playlists, states, mpd_state, run.library, run.queue) :
        \E generated \in {generate_filtered_playlist(mpd_state, met.mpd_ok, order,
                                                      met.failed, file)} :
           /\ file' = generated.file
           /\ run' = [run EXCEPT !.states = states, !.mpd_state = mpd_state,
                                 !.exited = ~generated.ok]
           /\ Traced([op |-> "generate", order |-> order],
                     Ret(generated.ok, 0, FALSE))

\* main: a key that completes the shortcut of item k
FilterSelect(k, met) ==
    /\ ~run.exited
    /\ FilterGenerate([run.states EXCEPT ![k] = plfilter_on_select(@)], run.mpd_state, met)
    /\ UNCHANGED playlists
    /\ FilterOnly

\* main: the key of the MPD item
FilterToggleMPD(met) ==
    /\ ~run.exited
    /\ FilterGenerate(run.states, plfilter_on_select(run.mpd_state), met)
    /\ UNCHANGED playlists
    /\ FilterOnly

\* main: a refresh, which reloads the playlist of every item; `opened[k]` is
\* what Playlist::open gives for item k
FilterRefresh(opened) ==
    /\ ~run.exited
    /\ LET Each(k) == plfilter_on_refresh(run.states[k], playlists[k], opened[k])
       IN /\ playlists' = [k \in 1..Len(playlists) |-> Each(k).playlist]
          /\ run' = [run EXCEPT !.states = [k \in 1..Len(playlists) |-> Each(k).state]]
    /\ Traced([op |-> "refresh"], Unit)
    /\ UNCHANGED file
    /\ FilterOnly

\* MPD's queue changes
FilterQueueChanges(queue) ==
    /\ ~run.exited
    /\ queue # run.queue
    /\ run' = [run EXCEPT !.queue = queue]
    /\ Traced([op |-> "queue"], Unit)
    /\ UNCHANGED <<file, playlists>>
    /\ FilterOnly

\* what Playlist::open may give for the file of an item: an error, the
\* lines the playlist has, or no line when the file has been emptied
FilterOpened(k) ==
    {None, Some(Playlist_open(playlists[k].name, Playlist_lines(playlists[k]))),
     Some(Playlist_open(playlists[k].name, <<>>))}

NextFilter ==
    \/ \E k \in 1..2 : \E met \in FilterOutcomes : FilterSelect(k, met)
    \/ \E met \in FilterOutcomes : FilterToggleMPD(met)
    \/ \E first \in FilterOpened(1) : \E second \in FilterOpened(2) :
          FilterRefresh(<<first, second>>)
    \/ \E queue \in FilterQueues : FilterQueueChanges(queue)

SpecFilter == InitFilter /\ [][NextFilter]_vars

-----------------------------------------------------------------------------
(* SpecBump: runs of `plrare bump ITEM n` (src/bin/plrare/main.rs) on the  *)
(* current playcount file, which `file` holds.  `run` keeps the paths and  *)
(* the number of the last run with the entries it read, and those of the   *)
(* run before it when that run pushed every path and wrote its file.       *)

\* the largest |n| of a run
MaxBump == 2

\* the most entries of the playcount file
MaxBumpLen == 4

\* for fpath in &fpaths { playcount.push(fpath) }, a failing push being
\* skipped: the playcount after it, and whether every push succeeded
RECURSIVE push_each_path(_, _)
push_each_path(self, fpaths) ==
    IF fpaths = <<>> THEN [self |-> self, ok |-> TRUE]
    ELSE LET pushed == Playcount_push(self, Head(fpaths))
             rest == push_each_path(pushed.self, Tail(fpaths))
         IN [self |-> rest.self, ok |-> pushed.ok /\ rest.ok]

\* for _ in 0..n { for fpath in &fpaths { push } }
RECURSIVE bump_push(_, _, _)
bump_push(self, fpaths, n) ==
    IF n <= 0 THEN [self |-> self, ok |-> TRUE]
    ELSE LET once == push_each_path(self, fpaths)
             rest == bump_push(once.self, fpaths, n - 1)
         IN [self |-> rest.self, ok |-> once.ok /\ rest.ok]

\* for _ in n..0 { playcount.remove_last(&track) }
RECURSIVE remove_last_times(_, _, _)
remove_last_times(self, track, n) ==
    IF n >= 0 THEN self
    ELSE remove_last_times(Playcount_remove_last(self, track).self, track, n + 1)

\* a removal that takes each track of the paths once, however often the
\* paths name it
RECURSIVE bump_remove_once_per_track(_, _, _)
bump_remove_once_per_track(self, fpaths, n) ==
    IF fpaths = <<>> THEN self
    ELSE LET track == Track_new(Head(fpaths))
             later == \E i \in 2..Len(fpaths) : Track_new(fpaths[i]) = track
         IN bump_remove_once_per_track(
                IF later THEN self ELSE remove_last_times(self, track, n), Tail(fpaths), n)

\* for fpath in &fpaths { let track = Track::new(fpath); for _ in n..0 {..} }
RECURSIVE bump_remove(_, _, _)
bump_remove(self, fpaths, n) ==
    IF fpaths = <<>> THEN self
    ELSE bump_remove(remove_last_times(self, Track_new(Head(fpaths)), n), Tail(fpaths), n)

\* Playcount::current(): open_or_new of the current playcount file
Playcount_current(f) ==
    IF f.exists THEN Playcount_reload(Playcount_new, f)
    ELSE [self |-> Playcount_new, ok |-> TRUE]

\* Commands::Bump: the file after the run, the entries read from it and left
\* in memory, whether every push succeeded and whether the run succeeded;
\* `failed` is the step of write() that fails, which leaves the file as it
\* was when it is its creation, and empty when it is its first line
plrare_bump(f, fpaths, n, failed) ==
    LET opened == Playcount_current(f)
        pushed == IF n > 0 THEN bump_push(opened.self, fpaths, n)
                  ELSE [self |-> bump_remove(opened.self, fpaths, n), ok |-> TRUE]
        lines == Playcount_lines(pushed.self)
        outcome == IF failed = "write" /\ lines = <<>>
                   THEN [failed |-> "none", written |-> 0]
                   ELSE [failed |-> failed,
                         written |-> IF failed = "none" THEN Len(lines) ELSE 0]
    IN IF ~opened.ok
       THEN [file |-> f, before |-> <<>>, after |-> <<>>, pushed |-> FALSE, ok |-> FALSE]
       ELSE IF ~pushed.self.is_modified
       THEN [file |-> f, before |-> opened.self.entries, after |-> pushed.self.entries,
             pushed |-> pushed.ok, ok |-> TRUE]
       ELSE [file |-> write(pushed.self, lines, f, outcome).file,
             before |-> opened.self.entries, after |-> pushed.self.entries,
             pushed |-> pushed.ok, ok |-> outcome.failed = "none"]

\* what get_fpaths_from_item gives: the path of an audio file as it is
\* written, and the lines of a playlist or of the MPD queue, each joined to
\* the music directory; file c does not exist
BumpItems ==
    {<< <<"a">> >>, << <<"c">> >>,
     << <<"/", "M", "a">>, <<"/", "M", "a">> >>,
     << <<"/", "M", "b">>, <<"/", "M", "a">>, <<"/", "M", "b">> >>}

\* the current playcount file before the first run
BumpFiles ==
    {NoFile, File(<< LineA >>), File(<< LineB, LineA >>),
     File(<< LineA, LineShort, LineB >>), File(<< LineB, InvalidUtf8 >>)}

\* no run of plrare bump has been made
NoBump == [n |-> 0, fpaths |-> <<>>, before |-> <<>>, after |-> <<>>]

InitBump ==
    /\ kind = "Playcount"
    /\ tracks = <<>>
    /\ entries = <<>>
    /\ tracks_map = EmptyMap
    /\ is_modified = FALSE
    /\ panicked = FALSE
    /\ integrity_ok = TRUE
    /\ file \in BumpFiles
    /\ changed = FALSE
    /\ call = [op |-> "none"]
    /\ ret = Unit
    /\ playlists = <<>>
    /\ playcounts = <<>>
    /\ pretend = FALSE
    /\ run = [phase |-> "plrare", last |-> NoBump, pushed |-> NoBump, ok |-> TRUE]
    /\ picker = NoPicker

\* main: Commands::Bump
Bump(fpaths, n, failed) ==
    \E done \in {plrare_bump(file, fpaths, n, failed)} :
       /\ Len(done.after) <= MaxBumpLen
       /\ file' = done.file
       /\ run' = [run EXCEPT !.last = [n |-> n, fpaths |-> fpaths, before |-> done.before,
                                       after |-> done.after],
                             !.pushed = IF run.ok /\ run.last.n > 0 THEN run.last
                                        ELSE NoBump,
                             !.ok = done.ok /\ done.pushed]
       /\ Traced([op |-> "bump", n |-> n], Ret(done.ok, 0, FALSE))
       /\ UNCHANGED <<object, kind, changed, playlists, playcounts, pretend, picker>>

NextBump ==
    \E fpaths \in BumpItems : \E n \in (0 - MaxBump)..MaxBump :
        \E failed \in {"none", "create", "write"} : Bump(fpaths, n, failed)

SpecBump == InitBump /\ [][NextBump]_vars

-----------------------------------------------------------------------------
(* SpecGen: one run of `plrare gen` (src/bin/plrare/gen.rs).  `playcounts` *)
(* holds the playcounts that Playcount::iter yields, `file` the file       *)
(* .Rare.m3u, and `run` the library and what generate returned.            *)

\* the most tracks of the library
MaxGenLen == 3

\* the paths of the library, of which a prefix is taken; soxi measures
\* files a and b only
GenPaths == [i \in 1..(MaxGenLen + 1) |-> << <<"a">>, <<"b">>, <<"c">>, <<"d">>, <<"e">> >>[i]]

\* a playcount line of the track c
LineC == << 2 ^ 24, "z", "", "", "u", <<"c">> >>

\* a playcount line of a track that the library does not hold
LineGone == << 2 ^ 23, "w", "", "", "r", <<"gone">> >>

\* the playcounts of the playcount directory
GenPlaycounts ==
    {<<>>,
     << Playcount_load(Playcount_new, << LineA >>) >>,
     << Playcount_load(Playcount_new, << LineA, LineB, LineGone >>),
        Playcount_load(Playcount_new, << LineA, LineC >>) >>,
     << Playcount_load(Playcount_new, << LineB, LineB, LineC >>),
        Playcount_load(Playcount_new, << LineC, LineA, LineC >>) >>}

\* Duration + Duration
duration_add(x, y) ==
    [secs |-> x.secs + y.secs + (x.nanos + y.nanos) \div 1000000000,
     nanos |-> (x.nanos + y.nanos) % 1000000000]

\* Duration < Duration
duration_lt(x, y) == x.secs < y.secs \/ (x.secs = y.secs /\ x.nanos < y.nanos)

\* Content::Number and Content::Duration
Number(n) == [number |-> TRUE, n |-> n]

Duration(secs) == [number |-> FALSE, d |-> [secs |-> secs, nanos |-> 0]]

\* generate: the map of all tracks to their play counts and the map of
\* their durations, after the entries of the playcounts are counted
track_counts(library, pcs) ==
    LET Plays(fpath) ==
            SumSeq([i \in 1..Len(pcs) |->
                       Cardinality({j \in 1..Len(pcs[i].entries) :
                                       pcs[i].entries[j].track.path = fpath})])
        RECURSIVE Last(_, _, _, _)
        Last(fpath, i, j, found) ==
            IF i > Len(pcs) THEN found
            ELSE IF j > Len(pcs[i].entries) THEN Last(fpath, i + 1, 1, found)
            ELSE Last(fpath, i, j + 1,
                      IF pcs[i].entries[j].track.path = fpath
                      THEN Some(pcs[i].entries[j].duration) ELSE found)
        paths == {library[i] : i \in 1..Len(library)}
    IN [tracks |-> [fpath \in paths |-> Plays(fpath)],
        track_durations |-> [fpath \in paths |-> Last(fpath, 1, 1, None)]]

\* add_next of both modes, after the track is chosen: its duration, when it
\* is known or can be measured
track_duration(track_durations, track) ==
    IF is_none(track_durations[track]) THEN compute_duration(track)
    ELSE [ok |-> TRUE, val |-> unwrap(track_durations[track])]

\* the match on content of both modes: whether another track is to be added
wants_more(content, picked_so_far, pl_duration) ==
    IF content.number THEN Len(picked_so_far) < content.n
    ELSE duration_lt(pl_duration, content.d)

\* slice::sort_by_key, which is stable
sort_by_key(vec, keys) ==
    LET rank(i) == 1 + Cardinality({j \in 1..Len(vec) : keys[j] < keys[i]})
                     + Cardinality({j \in 1..(i - 1) : keys[j] = keys[i]})
    IN [p \in 1..Len(vec) |-> vec[CHOOSE i \in 1..Len(vec) : rank(i) = p]]

\* the sort of generate_strict with the keys of its two cases exchanged
strict_sort_exchanged(vec, reverse) ==
    sort_by_key(vec, [i \in 1..Len(vec) |->
                         IF reverse THEN 0 - vec[i].n ELSE vec[i].n])

\* generate_strict: tracks.sort_by_key(|x| if reverse { x.1 } else { -x.1 })
strict_sort(vec, reverse) ==
    sort_by_key(vec, [i \in 1..Len(vec) |->
                         IF reverse THEN vec[i].n ELSE 0 - vec[i].n])

\* generate_strict on the Vec as the shuffle leaves it
generate_strict(content, vec, track_durations, reverse) ==
    LET sorted == strict_sort(vec, reverse)
        RECURSIVE add_next(_, _, _)
        add_next(left, picked_so_far, pl_duration) ==
            IF ~wants_more(content, picked_so_far, pl_duration)
            THEN [ok |-> TRUE, err |-> "none", picks |-> picked_so_far]
            ELSE IF left = <<>>
            THEN [ok |-> FALSE, err |-> "No tracks left to choose from",
                  picks |-> picked_so_far]
            ELSE LET track == left[Len(left)].path
                     measured == track_duration(track_durations, track)
                 IN IF ~measured.ok
                    THEN [ok |-> FALSE, err |-> "Failed to measure the duration",
                          picks |-> picked_so_far]
                    ELSE add_next(SubSeq(left, 1, Len(left) - 1), Append(picked_so_far, track),
                                  duration_add(pl_duration, measured.val))
    IN add_next(sorted, <<>>, [secs |-> 0, nanos |-> 0])

\* generate_prob.  Every weight that the code computes is positive, so the
\* distribution is the set of the indices whose weight has not been set to
\* 0; WeightedIndex::new fails on no weights, update_weights fails when it
\* leaves no positive weight, and sample gives an index of positive weight,
\* here the first of them in `preference`
generate_prob(content, vec, track_durations, reverse, preference) ==
    LET RECURSIVE add_next(_, _, _, _)
        add_next(dist, last_idx, picked_so_far, pl_duration) ==
            IF ~wants_more(content, picked_so_far, pl_duration)
            THEN [ok |-> TRUE, err |-> "none", picks |-> picked_so_far]
            ELSE LET updated == IF is_none(last_idx) THEN dist
                                ELSE dist \ {unwrap(last_idx)}
                 IN IF updated = {}
                    THEN [ok |-> FALSE, err |-> "No tracks left to choose from",
                          picks |-> picked_so_far]
                    ELSE LET idx == preference[
                                        Min({k \in 1..Len(preference) :
                                                preference[k] \in updated})]
                             track == vec[idx].path
                             measured == track_duration(track_durations, track)
                         IN IF ~measured.ok
                            THEN [ok |-> FALSE, err |-> "Failed to measure the duration",
                                  picks |-> picked_so_far]
                            ELSE add_next(updated, Some(idx), Append(picked_so_far, track),
                                          duration_add(pl_duration, measured.val))
    IN IF ~reverse /\ vec = <<>>
       THEN [ok |-> FALSE, err |-> "panic: unwrap on None", picks |-> <<>>]
       ELSE IF vec = <<>>
       THEN [ok |-> FALSE, err |-> "WeightedIndex::new", picks |-> <<>>]
       ELSE add_next(1..Len(vec), None, <<>>, [secs |-> 0, nanos |-> 0])

\* generate, after the content is parsed: what it returns, its picks and the
\* file .Rare.m3u after it.  `order` is the order of the Vec of the tracks,
\* which the HashMap and, in strict mode, the shuffle decide; `preference`
\* orders the indices for the sampling; `created` is whether File::create
\* of write() succeeds
generate(content, reverse, strict, library, pcs, order, preference, created, f) ==
    LET counted == track_counts(library, pcs)
        vec == [i \in 1..Len(order) |-> [path |-> order[i], n |-> counted.tracks[order[i]]]]
        picked == IF strict
                  THEN generate_strict(content, vec, counted.track_durations, reverse)
                  ELSE generate_prob(content, vec, counted.track_durations, reverse,
                                     preference)
        pushed == [i \in 1..Len(picked.picks) |-> Track_new(picked.picks[i])]
    IN IF ~picked.ok THEN [ok |-> FALSE, err |-> picked.err, picks |-> picked.picks,
                           file |-> f]
       ELSE IF ~created THEN [ok |-> FALSE, err |-> "write", picks |-> picked.picks,
                              file |-> f]
       ELSE [ok |-> TRUE, err |-> "none", picks |-> picked.picks,
             file |-> File([i \in 1..Len(pushed) |-> pushed[i].path])]

\* the contents asked for: numbers of tracks up to one more than the library
\* may hold, and durations of 2 and 9 seconds
GenContents ==
    {Number(n) : n \in 0..(MaxGenLen + 1)} \cup {Duration(2), Duration(9)}

InitGen ==
    /\ kind = "Playlist"
    /\ tracks = <<>>
    /\ entries = <<>>
    /\ tracks_map = EmptyMap
    /\ is_modified = FALSE
    /\ panicked = FALSE
    /\ integrity_ok = TRUE
    /\ file \in {NoFile, File(<< <<"old">> >>)}
    /\ changed = FALSE
    /\ call = [op |-> "none"]
    /\ ret = Unit
    /\ playlists = <<>>
    /\ playcounts \in GenPlaycounts
    /\ pretend = FALSE
    /\ \E n \in 0..MaxGenLen :
          run = [phase |-> "gen", library |-> SubSeq(GenPaths, 1, n), done |-> FALSE]
    /\ picker = NoPicker

\* what a run of plrare gen leaves alone
GenOnly == UNCHANGED <<object, kind, changed, playlists, playcounts, pretend, picker>>

\* the run, for the Vec order, the sampling and the write that it meets
Generated(content, reverse, strict, order, preference, created) ==
    \E made \in {generate(content, reverse, strict, run.library, playcounts, order,
                           preference, created, file)} :
       /\ file' = made.file
       /\ run' = [phase |-> "gen", library |-> run.library, done |-> TRUE,
                  picks |-> made.picks, err |-> made.err, before |-> file,
                  counts |-> track_counts(run.library, playcounts).tracks]
       /\ Traced([op |-> "generate", content |-> content, reverse |-> reverse,
                  strict |-> strict], Ret(made.ok, 0, FALSE))
       /\ GenOnly

\* plrare gen --strict
GenerateStrict(content, reverse, created) ==
    ~run.done /\ \E order \in Orders(Range(run.library)) :
        Generated(content, reverse, TRUE, order, <<>>, created)

\* plrare gen
GenerateProb(content, reverse, created) ==
    ~run.done /\ \E order \in Orders(Range(run.library)) :
        \E preference \in Orders(1..Len(run.library)) :
            Generated(content, reverse, FALSE, order, preference, created)

NextGen ==
    \/ \E content \in GenContents : \E reverse \in BOOLEAN : \E created \in BOOLEAN :
          GenerateStrict(content, reverse, created)
    \/ \E content \in GenContents : \E reverse \in BOOLEAN : \E created \in BOOLEAN :
          GenerateProb(content, reverse, created)

SpecGen == InitGen /\ [][NextGen]_vars

-----------------------------------------------------------------------------
(* The claims.                                                             *)

\* the positions at which the sequence holds track t
PositionsOf(t) == {i \in 0..(len - 1) : track_at(i) = t}

\* every track the claims speak of: those of the calls, of the index and of
\* the sequence
AnyTrack == Tracks \cup DOMAIN tracks_map \cup {track_at(i) : i \in 0..(len - 1)}

\* the entry a line of the file parses to
EntryOf(line) == Entry_from_str(line).entry

\* C1: after every call, for every track t, track_positions(t) is exactly the
\* set of positions whose record has track t, and is absent (contains(t)
\* false) when t occurs nowhere.
C1_IndexIsThePositions ==
    \A t \in AnyTrack :
        IF PositionsOf(t) = {}
        THEN ~contains(t) /\ is_none(track_positions(t))
        ELSE contains(t) /\ Range(unwrap(track_positions(t))) = PositionsOf(t)

\* a playlist of three lines was loaded and its middle track renamed to a path
\* under the music directory: the index lists both tracks
C1_Witness ==
    /\ kind = "Playlist"
    /\ tracks = << [path |-> <<"a">>], [path |-> <<"/", "M", "a">>], [path |-> <<"a">>] >>
    /\ tracks_map = ([path |-> <<"a">>] :> <<0, 2>>) @@ ([path |-> <<"/", "M", "a">>] :> <<1>>)

\* C8: every position list of the index is non-empty and strictly ascending,
\* the lists partition the positions 0..len-1, and no assert of remove_at
\* (nor any other panic) has fired.
C8_ListsPartitionPositions ==
    /\ \A t \in DOMAIN tracks_map :
          /\ tracks_map[t] # <<>>
          /\ \A j, k \in 1..Len(tracks_map[t]) : j < k => tracks_map[t][j] < tracks_map[t][k]
          /\ \A j \in 1..Len(tracks_map[t]) : tracks_map[t][j] \in 0..(len - 1)
    /\ \A i \in 0..(len - 1) :
          Cardinality({t \in DOMAIN tracks_map : i \in Range(tracks_map[t])}) = 1
    /\ ~panicked

\* a playcount of three lines was loaded and its middle entry removed: the
\* third entry moved down to position 1
C8_Witness ==
    /\ kind = "Playcount"
    /\ entries = << EntryOf(LineA), EntryOf(LineA) >>
    /\ tracks_map = ([path |-> <<"a">>] :> <<0, 1>>)
    /\ ~panicked

\* the track of a record of the sequence
TrackOf(record) == IF kind = "Playlist" THEN record ELSE record.track

\* a list of positions once position p is gone: p taken out, the positions
\* above it moved down by one
WithoutPosition(list, p) ==
    LET kept == SelectSeq(list, LAMBDA x : x # p)
    IN [k \in 1..Len(kept) |-> IF kept[k] > p THEN kept[k] - 1 ELSE kept[k]]

\* the tracks of the examples
TrackA == [path |-> <<"a">>]

TrackB == [path |-> <<"b">>]

TrackC == [path |-> <<>>]

\* C9: remove_at(p) with p < len deletes exactly the record at p: the new
\* sequence is the old one without element p, in every list the positions
\* above p are decremented and those below p are kept, and a track whose only
\* position was p leaves the index.
C9_RemoveAtDeletesExactly ==
    [][(call'.op = "remove_at" /\ call'.index < len) =>
          LET p == call'.index
          IN /\ sequence' = [i \in 1..(len - 1) |->
                                IF i <= p THEN sequence[i] ELSE sequence[i + 1]]
             /\ DOMAIN tracks_map' \subseteq DOMAIN tracks_map
             /\ \A t \in DOMAIN tracks_map :
                   IF WithoutPosition(tracks_map[t], p) = <<>>
                   THEN t \notin DOMAIN tracks_map'
                   ELSE /\ t \in DOMAIN tracks_map'
                        /\ tracks_map'[t] = WithoutPosition(tracks_map[t], p)]_vars

\* remove_at(1) was called on the playlist [A, B, A, C]
C9_Witness ==
    /\ kind = "Playlist"
    /\ call.op = "remove_at" /\ call.index = 1
    /\ call.before = <<TrackA, TrackB, TrackA, TrackC>>
    /\ tracks = <<TrackA, TrackA, TrackC>>
    /\ tracks_map = (TrackA :> <<0, 1>>) @@ (TrackC :> <<2>>)

\* C10: remove_all(t) removes every occurrence of t and nothing else: the
\* other records keep their relative order, t leaves the index, the number
\* returned is the number of occurrences of t before the call, and when t is
\* absent nothing changes and 0 is returned.
C10_RemoveAllRemovesEvery ==
    [][call'.op = "remove_all" =>
          LET t == call'.track
          IN /\ sequence' = SelectSeq(sequence, LAMBDA r : TrackOf(r) # t)
             /\ t \notin DOMAIN tracks_map'
             /\ ret'.n = Cardinality(PositionsOf(t))
             /\ PositionsOf(t) = {} =>
                   UNCHANGED <<tracks, entries, tracks_map, is_modified>>]_vars

\* remove_all(A) was called on a playcount holding A three times among others
C10_Witness ==
    /\ kind = "Playcount"
    /\ call.op = "remove_all" /\ call.track = TrackA
    /\ Len(call.before) = 5
    /\ [i \in 1..5 |-> call.before[i].track] = <<TrackA, TrackB, TrackA, TrackB, TrackA>>
    /\ [i \in 1..Len(entries) |-> entries[i].track] = <<TrackB, TrackB>>
    /\ ret.n = 3

\* the first occurrences of the tracks of s, in the order of s
FirstOccurrences(s) ==
    LET F[k \in 0..Len(s)] ==
            IF k = 0 THEN <<>>
            ELSE IF \E j \in 1..(k - 1) : s[j] = s[k] THEN F[k - 1]
                 ELSE Append(F[k - 1], s[k])
    IN F[Len(s)]

\* C4: remove_duplicates of a playlist leaves the first occurrence of each
\* distinct track, in the original relative order, and returns the old length
\* less the number of distinct tracks.
C4_RemoveDuplicatesKeepsFirst ==
    [][(call'.op = "remove_duplicates" /\ kind = "Playlist") =>
          /\ tracks' = FirstOccurrences(tracks)
          /\ ret'.n = Len(tracks) - Cardinality(Range(tracks))]_vars

\* remove_duplicates was called on the playlist [A, B, A, C, A]
C4_Witness ==
    /\ kind = "Playlist"
    /\ call.op = "remove_duplicates"
    /\ call.before = <<TrackA, TrackB, TrackA, TrackC, TrackA>>
    /\ tracks = <<TrackA, TrackB, TrackC>>
    /\ ret.n = 2

\* C2 as stated: bulk_rename is a simultaneous substitution: after the call the
\* record at each position i has the new path edits[old_i] if the track that
\* was at i is a key of edits, and is unchanged otherwise; the length of the
\* sequence is unchanged.
C2_SimultaneousSubstitution ==
    [][call'.op = "bulk_rename" =>
          /\ Len(sequence') = len
          /\ \A i \in 1..len :
                IF TrackOf(sequence[i]) \in DOMAIN call'.edits
                THEN TrackOf(sequence'[i]).path = call'.edits[TrackOf(sequence[i])]
                ELSE sequence'[i] = sequence[i]]_vars

\* C2, amended: when bulk_rename returns Ok it is a simultaneous substitution:
\* the record at each position i whose old track is a key of edits has, in a
\* Playlist, the path edits[old_i] as given and, in a Playcount, the track
\* Track::new(edits[old_i]) (the music directory stripped from the front) and
\* the duration it had; every other record is unchanged and so is the length.
\* When it returns Err the sequence is what it was.
C2_SubstitutionWhenOk ==
    [][call'.op = "bulk_rename" =>
          IF ret'.ok
          THEN /\ Len(sequence') = len
               /\ \A i \in 1..len :
                     LET old_i == TrackOf(sequence[i])
                     IN IF old_i \in DOMAIN call'.edits
                        THEN IF kind = "Playlist"
                             THEN sequence'[i] = [path |-> call'.edits[old_i]]
                             ELSE /\ sequence'[i].track = Track_new(call'.edits[old_i])
                                  /\ sequence'[i].duration = sequence[i].duration
                        ELSE sequence'[i] = sequence[i]
          ELSE sequence' = sequence]_vars

\* the edits {A -> b, B -> /M/a} were applied to the playcount [A, B]: the two
\* tracks are swapped
C2_Witness ==
    /\ kind = "Playcount"
    /\ call.op = "bulk_rename"
    /\ call.edits = (TrackA :> <<"b">>) @@ (TrackB :> <<"/", "M", "a">>)
    /\ Len(call.before) = 2
    /\ call.before[1].track = TrackA /\ call.before[2].track = TrackB
    /\ ret.ok /\ ret.n = 2
    /\ Len(entries) = 2
    /\ entries[1].track = TrackB /\ entries[2].track = TrackA
    /\ entries[1].duration = call.before[1].duration
    /\ entries[2].duration = call.before[2].duration

\* the replacement entry for new_path can be built: Entry::new as bulk_rename
\* calls it
ReplacementBuilds(new_path) ==
    Entry_new(new_path, Some([secs |-> 0, nanos |-> 0]), None, None, None, None).ok

\* C3: when the replacement entry cannot be built for the new path of some
\* edit whose old track is present, Playcount::bulk_rename returns an error
\* and entries, tracks_map and is_modified are what they were, whatever the
\* order in which the edits are visited.
C3_RenameAllOrNothing ==
    [][(/\ call'.op = "bulk_rename"
        /\ kind = "Playcount"
        /\ \E t \in DOMAIN call'.edits :
              t \in DOMAIN tracks_map /\ ~ReplacementBuilds(call'.edits[t])) =>
          /\ ~ret'.ok
          /\ UNCHANGED <<entries, tracks_map, is_modified>>]_vars

\* the edits {A -> b, B -> (no audio file)} were refused on the playcount
\* [A, B], which is what it was
C3_Witness ==
    /\ kind = "Playcount"
    /\ call.op = "bulk_rename"
    /\ call.edits = (TrackA :> <<"b">>) @@ (TrackB :> <<>>)
    /\ Len(call.before) = 2
    /\ call.before[1].track = TrackA /\ call.before[2].track = TrackB
    /\ ~ret.ok
    /\ entries = call.before
    /\ tracks_map = (TrackA :> <<0>>) @@ (TrackB :> <<1>>)

\* what open() makes of the file that a successful write() of the object
\* leaves: new(fpath), then reload() of the lines written
WrittenThenOpened ==
    IF kind = "Playlist"
    THEN Playlist_load(Playlist_new, Playlist_lines(Playlist_self)).tracks
    ELSE Playcount_load(Playcount_new, Playcount_lines(Playcount_self)).entries

\* C6: in every reachable state, write() followed by open() on the same path
\* yields a collection whose sequence has the same records in the same order.
C6_WriteThenOpenRoundTrip == WrittenThenOpened = sequence

\* C7: is_modified() is true iff the sequence has been changed since new or
\* the last successful write or reload.
C7_ModifiedIffChanged == is_modified = changed

\* the sum of the counts of the entries of s whose track is in T
RECURSIVE CountOver(_, _)
CountOver(s, T) ==
    IF s = <<>> THEN 0
    ELSE (IF Head(s).track \in T THEN Head(s).count ELSE 0) + CountOver(Tail(s), T)

\* the tracks of the entries of s
TracksIn(s) == {s[i].track : i \in 1..Len(s)}

\* C5: merge_duplicates leaves, for every track, its first entry alone, in the
\* original order, holding the sum of the counts of all the entries of the
\* track; it returns the number of entries removed, and the total count over
\* the file is unchanged.
C5_MergeSumsIntoFirst ==
    [][call'.op = "merge_duplicates" =>
          /\ [i \in 1..Len(entries') |-> entries'[i].track]
                = FirstOccurrences([i \in 1..Len(entries) |-> entries[i].track])
          /\ \A i \in 1..Len(entries') :
                entries'[i].count
                   = CountOver(entries, {entries'[i].track})
          /\ ret'.n = Len(entries) - Len(entries')
          /\ CountOver(entries', TracksIn(entries')) = CountOver(entries, TracksIn(entries))]_vars

\* merge_duplicates was called on entries for A with counts 3, 5 and 2 at
\* positions 0, 2 and 4
C5_Witness ==
    /\ call.op = "merge_duplicates"
    /\ call.before = << [track |-> TrackA, count |-> 3], [track |-> TrackB, count |-> 1],
                        [track |-> TrackA, count |-> 5], [track |-> TrackC, count |-> 1],
                        [track |-> TrackA, count |-> 2] >>
    /\ entries = << [track |-> TrackA, count |-> 10], [track |-> TrackB, count |-> 1],
                    [track |-> TrackC, count |-> 1] >>
    /\ tracks_map = (TrackA :> <<0>>) @@ (TrackB :> <<1>>) @@ (TrackC :> <<2>>)
    /\ ret.n = 2

\* C11: remove_last(t) returns true iff t occurred before the call; when it
\* did, exactly its highest-positioned occurrence is removed, the other
\* records keep their order and the length drops by one; when it did not,
\* nothing changes.
C11_RemoveLastRemovesHighest ==
    [][call'.op = "remove_last" =>
          LET P == PositionsOf(call'.track)
          IN /\ ret'.found = (P # {})
             /\ IF P = {}
                THEN UNCHANGED <<tracks, entries, tracks_map, is_modified>>
                ELSE LET p == CHOOSE x \in P : \A y \in P : y <= x
                     IN /\ Len(sequence') = len - 1
                        /\ sequence' = [i \in 1..(len - 1) |->
                                           IF i <= p THEN sequence[i] ELSE sequence[i + 1]]]_vars

\* remove_last(A) was called on the playlist [A, B, A, B]: the A at position 2
\* went, the one at position 0 stayed
C11_Witness ==
    /\ kind = "Playlist"
    /\ call.op = "remove_last" /\ call.track = TrackA
    /\ call.before = <<TrackA, TrackB, TrackA, TrackB>>
    /\ tracks = <<TrackA, TrackB, TrackB>>
    /\ ret.found

\* C12: remove_at(p) with p >= len, an empty collection included, does not
\* panic and leaves the sequence and the index as they were.
C12_RemoveAtOutOfRangeIgnored ==
    [][(call'.op = "remove_at" /\ call'.index >= len) =>
          /\ ~panicked'
          /\ UNCHANGED <<tracks, entries, tracks_map>>]_vars

\* remove_at(2) was called on a playcount of two entries, which is what it was
C12_Witness ==
    /\ kind = "Playcount"
    /\ call.op = "remove_at" /\ call.index = 2
    /\ Len(call.before) = 2
    /\ entries = call.before
    /\ DOMAIN tracks_map = TracksIn(entries)
    /\ ~panicked

\* what bulk_rename(edits) makes of the object when the edits are visited in
\* `order`: the sequence, the index, and the result
RenameOutcome(edits, order) ==
    IF kind = "Playlist"
    THEN LET r == Playlist_bulk_rename(Playlist_self, edits, order)
         IN [sequence |-> r.self.tracks, tracks_map |-> r.self.tracks_map,
             ok |-> TRUE, n |-> r.n]
    ELSE LET r == Playcount_bulk_rename(Playcount_self, edits, order)
         IN [sequence |-> r.self.entries, tracks_map |-> r.self.tracks_map,
             ok |-> r.ok, n |-> r.n]

\* C13: the outcome of bulk_rename (final sequence, final index, result) is
\* the one that every iteration order of the edits map gives.
C13_RenameOrderIndependent ==
    [][call'.op = "bulk_rename" =>
          \A order \in Orders(DOMAIN call'.edits) :
              RenameOutcome(call'.edits, order)
                 = [sequence |-> sequence', tracks_map |-> tracks_map',
                    ok |-> ret'.ok, n |-> ret'.n]]_vars

\* the edits {A -> b, B -> b}, which share their new path, were applied to the
\* playcount [A, B]
C13_Witness ==
    /\ kind = "Playcount"
    /\ call.op = "bulk_rename"
    /\ call.edits = (TrackA :> <<"b">>) @@ (TrackB :> <<"b">>)
    /\ Len(call.before) = 2
    /\ call.before[1].track = TrackA /\ call.before[2].track = TrackB
    /\ ret.ok /\ ret.n = 2
    /\ Len(entries) = 2
    /\ entries[1].track = TrackB /\ entries[2].track = TrackB
    /\ tracks_map = (TrackB :> <<0, 1>>)

\* C14: the number bulk_rename returns is the number of positions whose track
\* was a key of edits before the call: every occurrence counts, an edit for
\* an absent track counts nothing.
C14_RenameCountsOccurrences ==
    [][(call'.op = "bulk_rename" /\ ret'.ok) =>
          ret'.n = Cardinality({i \in 0..(len - 1) : track_at(i) \in DOMAIN call'.edits})]_vars

\* the edits {A -> b, B -> a} were applied to the playlist [A, A], which has
\* no B: 2 is returned
C14_Witness ==
    /\ kind = "Playlist"
    /\ call.op = "bulk_rename"
    /\ call.edits = (TrackA :> <<"b">>) @@ (TrackB :> <<"a">>)
    /\ call.before = <<TrackA, TrackA>>
    /\ tracks = <<TrackB, TrackB>>
    /\ ret.ok /\ ret.n = 2

\* the entry that Entry::new makes of new_path when it is given the duration
\* and reads the rest from the tags of the file
EntryAt(new_path, duration) ==
    Entry_new(new_path, Some(duration), None, None, None, None).entry

\* C15: after a successful Playcount::bulk_rename every renamed entry has the
\* duration of the entry that was at its position, and the track, artist,
\* album artist, album and title of the new path.
C15_RenameKeepsDurations ==
    [][(call'.op = "bulk_rename" /\ kind = "Playcount" /\ ret'.ok) =>
          \A i \in 1..len :
              entries[i].track \in DOMAIN call'.edits =>
                  /\ entries'[i].duration = entries[i].duration
                  /\ entries'[i] = EntryAt(call'.edits[entries[i].track],
                                           entries[i].duration)]_vars

\* the edit {A -> b} was applied to a playcount with two entries for A of
\* different durations: each position kept its own
C15_Witness ==
    /\ kind = "Playcount"
    /\ call.op = "bulk_rename"
    /\ call.edits = (TrackA :> <<"b">>) @@ (TrackC :> <<"b">>)
    /\ Len(call.before) = 2
    /\ call.before[1].track = TrackA /\ call.before[2].track = TrackA
    /\ call.before[1].duration # call.before[2].duration
    /\ ret.ok
    /\ Len(entries) = 2
    /\ entries[1] = EntryAt(<<"b">>, call.before[1].duration)
    /\ entries[2] = EntryAt(<<"b">>, call.before[2].duration)

\* C16: Playcount::bulk_rename builds replacements only for the edits whose
\* old track is present: when those all build, the call succeeds whatever the
\* new paths of the other edits are, and the records whose track is no key of
\* edits are unchanged.
C16_AbsentEditsNotValidated ==
    [][(/\ call'.op = "bulk_rename"
        /\ kind = "Playcount"
        /\ \A t \in DOMAIN call'.edits :
              t \in DOMAIN tracks_map => ReplacementBuilds(call'.edits[t])) =>
          /\ ret'.ok
          /\ Len(entries') = len
          /\ \A i \in 1..len :
                entries[i].track \notin DOMAIN call'.edits => entries'[i] = entries[i]]_vars

\* the edits {A -> b, C -> (no audio file)} were applied to the playcount
\* [A, B], which has no C: the call succeeded and B is what it was
C16_Witness ==
    /\ kind = "Playcount"
    /\ call.op = "bulk_rename"
    /\ call.edits = (TrackA :> <<"b">>) @@ (TrackC :> <<>>)
    /\ ~ReplacementBuilds(<<>>)
    /\ Len(call.before) = 2
    /\ call.before[1].track = TrackA /\ call.before[2].track = TrackB
    /\ ret.ok /\ ret.n = 1
    /\ Len(entries) = 2
    /\ entries[1].track = TrackB /\ entries[2] = call.before[2]

\* C17: remove_duplicates called directly after remove_duplicates returns 0
\* and changes neither the sequence nor the index.
C17_RemoveDuplicatesIdempotent ==
    [][(call.op = "remove_duplicates" /\ call'.op = "remove_duplicates") =>
          /\ ret'.n = 0
          /\ UNCHANGED <<tracks, tracks_map>>]_vars

\* remove_duplicates was called on the playlist [A, B, C] that a call of
\* remove_duplicates removing 2 tracks had just left
C17_Witness ==
    /\ kind = "Playlist"
    /\ call.op = "remove_duplicates"
    /\ call.prior = [op |-> "remove_duplicates", n |-> 2]
    /\ call.before = <<TrackA, TrackB, TrackC>>
    /\ tracks = <<TrackA, TrackB, TrackC>>
    /\ tracks_map = (TrackA :> <<0>>) @@ (TrackB :> <<1>>) @@ (TrackC :> <<2>>)
    /\ ret.n = 0

\* playlist i of plfix carries the history marker
IsHistory(i) == str_starts_with(playlists[i].name, HistMarker)

RECURSIVE Repeats(_, _)
Repeats(seqs, skipped) ==
    IF seqs = <<>> THEN 0
    ELSE (IF Head(skipped) THEN 0 ELSE Len(Head(seqs)) - Cardinality(Range(Head(seqs))))
            + Repeats(Tail(seqs), Tail(skipped))

\* C19: with --pretend the duplicate steps of plfix change no collection
\* (every sequence, index and dirty flag is as loaded), and the number they
\* report is the number of records that a run without --pretend removes.
C19_PretendChangesNothing ==
    [][(pretend /\ call'.op \in {"remove_playlist_duplicates", "merge_playcount_duplicates"}) =>
          /\ UNCHANGED <<playlists, playcounts>>
          /\ ret'.n = IF call'.op = "remove_playlist_duplicates"
                      THEN Repeats([i \in 1..Len(playlists) |-> playlists[i].tracks],
                                   [i \in 1..Len(playlists) |-> IsHistory(i)])
                      ELSE Repeats([i \in 1..Len(playcounts) |->
                                       [k \in 1..Len(playcounts[i].entries) |->
                                           playcounts[i].entries[k].track]],
                                   [i \in 1..Len(playcounts) |-> FALSE])]_vars

\* the records that the lines of a file parse to: in a playlist every line is
\* a track, and a file of one empty line is no track at all; in a playcount
\* the lines that are no entry are left out
RECURSIVE ParsedEntries(_)
ParsedEntries(lines) ==
    IF lines = <<>> THEN <<>>
    ELSE (IF Entry_from_str(Head(lines)).ok THEN <<EntryOf(Head(lines))>> ELSE <<>>)
            \o ParsedEntries(Tail(lines))

ParseOf(lines) ==
    IF kind = "Playcount" THEN ParsedEntries(lines)
    ELSE IF Len(lines) = 1 /\ Track_new(lines[1]).path = <<>> THEN <<>>
    ELSE [i \in 1..Len(lines) |-> Track_new(lines[i])]

\* m is the index of the sequence s: for each track of s, its positions in
\* ascending order, and nothing else
IsIndexOf(m, s) ==
    /\ DOMAIN m = {TrackOf(s[i]) : i \in 1..Len(s)}
    /\ \A t \in DOMAIN m :
          /\ Range(m[t]) = {i - 1 : i \in {j \in 1..Len(s) : TrackOf(s[j]) = t}}
          /\ \A i, j \in 1..Len(m[t]) : i < j => m[t][i] < m[t][j]

\* C20: a reload() that fails (the file is missing, or a line of it cannot be
\* read) returns an error and leaves the sequence, the index and is_modified
\* as they were; a reload() that succeeds replaces the sequence and the index
\* by the parse of the file as it is now and sets is_modified to false.
C20_ReloadAllOrNothing ==
    [][call'.op = "reload" =>
          IF ~file.exists \/ InvalidUtf8 \in Range(file.lines)
          THEN /\ ~ret'.ok
               /\ UNCHANGED <<tracks, entries, tracks_map, is_modified>>
          ELSE /\ ret'.ok
               /\ sequence' = ParseOf(file.lines)
               /\ IsIndexOf(tracks_map', sequence')
               /\ ~is_modified']_vars

\* a reload failed on the second line of a file, on an object that held a
\* pushed record: the record is still there and the object is still modified
C20_Witness ==
    /\ call.op = "reload"
    /\ ~ret.ok
    /\ file.exists
    /\ Len(file.lines) = 2
    /\ file.lines[2] = InvalidUtf8
    /\ call.modified
    /\ is_modified
    /\ len = 1
    /\ sequence = call.before
    /\ DOMAIN tracks_map = {track_at(0)}

\* the line that write() makes of a record
LineOf(record) == IF kind = "Playlist" THEN record.path ELSE as_file_line(record)

\* C21: write() puts the whole sequence in the file, in order, one record per
\* line, in place of what the file held, and clears is_modified only when it
\* succeeds: a write that fails leaves is_modified as it was; the sequence and
\* the index are the same after any write.
C21_WriteSerializesAndClearsOnSuccess ==
    [][call'.op = "write" =>
          /\ UNCHANGED <<tracks, entries, tracks_map>>
          /\ IF ret'.ok
             THEN /\ file'.exists
                  /\ file'.lines = [i \in 1..len |-> LineOf(sequence[i])]
                  /\ ~is_modified'
             ELSE is_modified' = is_modified]_vars

\* a write of two pushed records failed after the first line: the file holds
\* that line only and the object is still modified
C21_Witness ==
    /\ call.op = "write"
    /\ ~ret.ok
    /\ call.modified
    /\ is_modified
    /\ len = 2
    /\ sequence = call.before
    /\ file.exists
    /\ file.lines = <<LineOf(sequence[1])>>

\* the lines of six fields or more whose first field is a number
WellFormed(lines) == SelectSeq(lines, LAMBDA l : Len(l) >= 6 /\ l[1] # NotANumber)

\* C22: no line of a playcount file makes open or reload fail.  For every file
\* that can be read, the entries after the call are the lines that parse (six
\* fields, the first a number), in the order of the file, and the others are
\* left out; when no line parses the playcount is empty and the call succeeds.
C22_BadLinesAreSkipped ==
    [][(call'.op = "reload" /\ kind = "Playcount" /\ CanBeRead(file)) =>
          LET good == WellFormed(file.lines)
          IN /\ ret'.ok
             /\ Len(entries') = Len(good)
             /\ \A i \in 1..Len(good) :
                   /\ as_secs_f32(entries'[i].duration) = good[i][1]
                   /\ entries'[i].artist = good[i][2]
                   /\ unwrap_or(entries'[i].album_artist, "") = good[i][3]
                   /\ unwrap_or(entries'[i].album, "") = good[i][4]
                   /\ entries'[i].title = good[i][5]
                   /\ entries'[i].track = Track_new(good[i][6])]_vars

\* a playcount holding a pushed entry was reloaded from a file of two lines,
\* neither of which parses: the call succeeded and the playcount is empty
C22_Witness ==
    /\ call.op = "reload"
    /\ kind = "Playcount"
    /\ ret.ok
    /\ Len(call.before) = 1
    /\ file = File(<< LineNoNumber, LineShort >>)
    /\ entries = <<>>
    /\ tracks_map = EmptyMap

\* C23: opening a playlist file that is a single empty line gives an empty
\* playlist (no track, empty index) and not a playlist of one track with the
\* empty path; opening any other file gives one track for each line, in the
\* order of the file.
C23_OnlyTheSingleEmptyLineIsDropped ==
    [][(call.op = "new" /\ call'.op = "reload" /\ kind = "Playlist" /\ CanBeRead(file)) =>
          IF file.lines = << <<>> >>
          THEN tracks' = <<>> /\ tracks_map' = EmptyMap
          ELSE /\ Len(tracks') = Len(file.lines)
               /\ \A i \in 1..Len(file.lines) : tracks'[i] = Track_new(file.lines[i])]_vars

\* C24: of two calls of write() with no other call between them, the second
\* leaves in the file what the first left there, and leaves the sequence, the
\* index and is_modified as they were.
C24_WriteTwiceSameFile ==
    [][(call.op = "write" /\ ret.ok /\ call'.op = "write" /\ ret'.ok) =>
          /\ file' = file
          /\ UNCHANGED <<tracks, entries, tracks_map, is_modified>>]_vars

\* two records were pushed and written, and written again at once: the file
\* holds the two lines
C24_Witness ==
    /\ call.op = "write"
    /\ ret.ok
    /\ call.prior = [op |-> "write", ok |-> TRUE]
    /\ len = 2
    /\ Len(file.lines) = 2
    /\ ~is_modified

\* C25: push appends at the end.  After a push of track t that succeeds, the
\* sequence is the old sequence followed by a record of t, the list of t in
\* the index is its old list followed by the old length (or that length alone
\* when t was absent), and the list of every other track is as it was.
C25_PushAppends ==
    [][(call'.op = "push" /\ ret'.ok) =>
          LET t == Track_new(call'.fpath)
          IN /\ Len(sequence') = len + 1
             /\ SubSeq(sequence', 1, len) = sequence
             /\ TrackOf(sequence'[len + 1]) = t
             /\ DOMAIN tracks_map' = DOMAIN tracks_map \cup {t}
             /\ tracks_map'[t] = IF t \in DOMAIN tracks_map
                                 THEN Append(tracks_map[t], len) ELSE <<len>>
             /\ \A u \in DOMAIN tracks_map \ {t} : tracks_map'[u] = tracks_map[u]]_vars

\* a track was pushed that the sequence held already at position 0, with
\* another track at position 1: its list is now 0, 2
C25_Witness ==
    /\ call.op = "push"
    /\ ret.ok
    /\ Len(call.before) = 2
    /\ len = 3
    /\ track_at(2) = track_at(0)
    /\ track_at(1) # track_at(0)
    /\ tracks_map[track_at(0)] = <<0, 2>>
    /\ tracks_map[track_at(1)] = <<1>>

\* the item at position k of the picker
ItemAt(self, k) == unwrap(self.items[k])

\* C26: refresh of the picker goes in two phases.  A call made while
\* is_refreshing() is false runs on_refresh for no item, sets is_refreshing
\* and returns false; the call after it runs on_refresh once for every item,
\* clears is_refreshing and returns true.  Whatever the order of the calls of
\* refresh, update_input and render, the is_refreshing of every item is that
\* of the picker, and no assert! on what an item returns fails.
C26_RefreshInTwoPhases ==
    /\ [](\A k \in SomeItems(picker) : ItemAt(picker, k).is_refreshing = picker.is_refreshing)
    /\ [][call'.op = "refresh" =>
             /\ ~picker'.panicked
             /\ picker'.is_refreshing = ~picker.is_refreshing
             /\ ret'.found = picker.is_refreshing
             /\ \A k \in SomeItems(picker) :
                   ItemAt(picker', k).state =
                       IF picker.is_refreshing
                       THEN (ItemAt(picker, k).state + 1) % 3
                       ELSE ItemAt(picker, k).state]_vars

\* the second refresh of a picker of two items ended: each item went through
\* on_refresh once and neither the picker nor an item is refreshing
C26_Witness ==
    /\ call.op = "refresh"
    /\ ret.found
    /\ ~picker.panicked
    /\ ~picker.is_refreshing
    /\ SomeItems(picker) = {1, 2}
    /\ \A k \in {1, 2} : ItemAt(picker, k).state = 1 /\ ~ItemAt(picker, k).is_refreshing

\* the shortcuts of the items of the picker
ShortcutsOf(self) == {ItemAt(self, k).shortcut : k \in SomeItems(self)}

\* the items in the order that p gives them
Reordered(self, p) == [self EXCEPT !.items = [k \in 1..Len(self.items) |-> self.items[p[k]]]]

\* C27: the shortcuts of the picker being such that none begins with another,
\* update_input(input) selects an item exactly when input is its shortcut:
\* that item and no other goes through on_select, did_select() becomes true
\* and the call returns false.  It returns true and selects nothing exactly
\* when input is the beginning of a shortcut and not the whole of one.  In
\* every other case it returns false and selects nothing.  The items in any
\* other order give the same result.
C27_UpdateInputSelectsTheExactMatch ==
    [][call'.op = "update_input" =>
          LET input == call'.input
              whole == input \in ShortcutsOf(picker)
              begins == \E shortcut \in ShortcutsOf(picker) : str_starts_with(shortcut, input)
          IN /\ \A k \in SomeItems(picker) :
                   ItemAt(picker', k) =
                       IF ItemAt(picker, k).shortcut = input
                       THEN [ItemAt(picker, k) EXCEPT !.state = (@ + 2) % 3]
                       ELSE ItemAt(picker, k)
             /\ Cardinality({k \in SomeItems(picker) : ItemAt(picker, k).shortcut = input})
                   = IF whole THEN 1 ELSE 0
             /\ picker'.did_select = whole
             /\ ret'.found = (begins /\ ~whole)
             /\ \A p \in Permutations(1..Len(picker.items)) :
                   LET other == TuiPickerState_update_input(Reordered(picker, p), input)
                   IN /\ other.ret = ret'.found
                      /\ other.self = Reordered(picker', p)]_vars

\* the input ab selected the second of the items b and ab: only that item
\* went through on_select
C27_Witness ==
    /\ call.op = "update_input"
    /\ call.input = <<"a", "b">>
    /\ ~ret.found
    /\ picker.did_select
    /\ SomeItems(picker) = {1, 2}
    /\ ItemAt(picker, 1).shortcut = <<"b">>
    /\ ItemAt(picker, 2).shortcut = <<"a", "b">>
    /\ ItemAt(picker, 1).state = 0
    /\ ItemAt(picker, 2).state = 2

\* the sequence s without the elements of the set T
Without(s, T) == SelectSeq(s, LAMBDA t : t \notin T)

\* the ignore playlist went from `before` to `after` by pushes of the tracks
\* of T, each of them at least once, and of nothing else
PushedTo(before, after, T) ==
    /\ Len(after.tracks) >= Len(before.tracks)
    /\ SubSeq(after.tracks, 1, Len(before.tracks)) = before.tracks
    /\ {after.tracks[k] : k \in (Len(before.tracks) + 1)..Len(after.tracks)} = T

\* C28: plfix deletes nothing from a history playlist (a name that starts
\* with "hist.") nor from a playcount.  Removing a set of tracks leaves each
\* of them as it was and appends the tracks of the set that it holds to the
\* ignore playlist; every other playlist loses every occurrence of every
\* track of the set.
C28_HistoryAndPlaycountsKeepTheirTracks ==
    [][/\ call'.op = "remove_tracks_from_playlists" =>
             /\ \A i \in 1..Len(playlists) :
                   IF IsHistory(i) THEN playlists'[i] = playlists[i]
                   ELSE playlists'[i].tracks = Without(playlists[i].tracks, Range(run.deletes))
             /\ playcounts' = playcounts
             /\ PushedTo(run.ignore_playlist, run'.ignore_playlist,
                         {t \in Range(run.deletes) :
                             \E i \in 1..Len(playlists) :
                                IsHistory(i) /\ t \in Range(playlists[i].tracks)})
       /\ call'.op = "remove_tracks_from_playcounts" =>
             /\ playlists' = playlists
             /\ playcounts' = playcounts
             /\ PushedTo(run.ignore_playlist, run'.ignore_playlist,
                         {t \in Range(run.deletes) :
                             \E i \in 1..Len(playcounts) :
                                \E k \in 1..Len(playcounts[i].entries) :
                                   playcounts[i].entries[k].track = t})]_vars

\* track a was removed from rock, which held a and b, and from hist.rock,
\* which held a twice: rock holds b, hist.rock is as it was and the ignore
\* playlist has gained a
C28_Witness ==
    /\ call.op = "remove_tracks_from_playlists"
    /\ Range(run.deletes) = {TrackA}
    /\ playlists[1].name = <<"rock">>
    /\ call.before[1].tracks = <<TrackA, TrackB>>
    /\ playlists[1].tracks = <<TrackB>>
    /\ playlists[2].name = <<"hist.", "rock">>
    /\ playlists[2].tracks = <<TrackA, TrackA>>
    /\ ~playlists[2].is_modified
    /\ call.ignore_before.tracks = <<>>
    /\ run.ignore_playlist.tracks = <<TrackA>>

\* C29: choosing a[b]ort while the invalid paths are resolved discards all
\* changes: once the user has aborted, every playlist file, every playcount
\* file and the file of the ignore playlist is as it was when the run began.
C29_AbortDiscardsAllChanges ==
    run.phase # "none" /\ run.aborted => run.disk = run.disk_before

\* C30: in a run without --pretend, every playlist from which the removal of
\* duplicates removed a track has been written when the program exits,
\* whether or not an invalid path was found.
C30_DeduplicatedPlaylistsAreWritten ==
    run.phase = "exit" /\ ~pretend /\ ~run.failed => run.deduplicated \subseteq run.written

\* C31: under every sequence of answers (skip, edit, an edit that fails and
\* is followed by another choice, delete, quit, abort) the keys of the edits
\* map and the deletes set of ask_resolve_invalid_paths are disjoint, so that
\* its final assertion never fails and no track is both renamed and deleted.
C31_EditsAndDeletesDisjoint ==
    /\ (DOMAIN run.edits) \cap run.deletes = {}
    /\ run.phase # "panicked"

\* ask_resolve_invalid_paths has returned with an edit of one track and the
\* deletion of another
C31_Witness ==
    /\ run.phase = "returned"
    /\ Len(run.order) = 2
    /\ DOMAIN run.edits = {run.order[1]}
    /\ run.deletes = {run.order[2]}

\* whether the playlist of the item holds the track of CURRENT_TRACK
HoldsCurrentTrack ==
    ~is_none(run.current) /\ Playlist_contains(Playlist_self, Track_new(unwrap(run.current)))

\* C32: after every call of plcategorize's on_refresh or on_select the state
\* of the item agrees with its playlist: it is 2 iff the reload failed, and
\* otherwise 1 iff the playlist in memory holds the current track and 0 iff
\* it does not, also when the write fails in the course of a selection.
C32_ItemStateAgreesWithPlaylist ==
    call.op \in {"on_refresh", "on_select"} =>
        /\ run.state = 2 <=> ~run.reloaded
        /\ run.reloaded => (run.state = 1 <=> HoldsCurrentTrack)
        /\ run.reloaded => (run.state = 0 <=> ~HoldsCurrentTrack)

\* C33: in the main loops of plcategorize and plfilter, once a refresh has
\* been started no input event is read or handled until it has completed,
\* and it completes in the very next iteration of the loop, after one
\* redraw; in plcategorize the is_refreshing flag of the delete item equals
\* that of the picker at the start of every iteration.
C33_RefreshCompletesBeforeAnyEvent ==
    /\ [](run.phase = "loop" =>
            /\ run.in_progress /\ run.at = "draw" => run.iteration = run.started
            /\ run.in_progress /\ run.at = "handle" => run.iteration = run.started + 1
            /\ run.program = "plcategorize" /\ run.at = "draw" =>
                  run.item.is_refreshing = picker.is_refreshing)
    /\ [][/\ run.at = "handle" /\ call'.op = "event" => ~run.in_progress
          /\ run.at = "handle" /\ run.in_progress =>
                call'.op = "refresh" /\ ~run'.in_progress /\ run'.at = "draw"]_vars

\* a refresh that Action::Refresh started in the second iteration has
\* completed in the third, in plcategorize, where the delete item has been
\* refreshed with the picker
C33_Witness ==
    /\ run.phase = "loop"
    /\ run.program = "plcategorize"
    /\ call.op = "refresh"
    /\ run.started = 2
    /\ run.iteration = 3
    /\ ~run.in_progress
    /\ ~picker.is_refreshing
    /\ ~run.item.is_refreshing
    /\ run.item.state = 2

\* the library tracks that every playlist in state 1 holds and no playlist in
\* state 2 holds, the MPD queue counting as a playlist in the state of the
\* MPD item
FilterExpected ==
    {t \in {Track_new(run.library[i]) : i \in 1..Len(run.library)} :
        /\ \A k \in 1..Len(playlists) :
              /\ run.states[k] = 1 => Playlist_contains(playlists[k], t)
              /\ run.states[k] = 2 => ~Playlist_contains(playlists[k], t)
        /\ run.mpd_state = 1 => \E i \in 1..Len(run.queue) : Track_new(run.queue[i]) = t
        /\ run.mpd_state = 2 => \A i \in 1..Len(run.queue) : Track_new(run.queue[i]) # t}

Occurrences(ents, track) == Cardinality({i \in 1..Len(ents) : ents[i].track = track})

\* how often a list of paths names a track
Named(fpaths, track) == Cardinality({i \in 1..Len(fpaths) : Track_new(fpaths[i]) = track})

\* the entries of a sequence without its last k entries of a track
RECURSIVE WithoutLatest(_, _, _)
WithoutLatest(ents, track, k) ==
    IF k = 0 \/ ents = <<>> THEN ents
    ELSE LET last == ents[Len(ents)]
             front == SubSeq(ents, 1, Len(ents) - 1)
         IN IF last.track = track THEN WithoutLatest(front, track, k - 1)
            ELSE Append(WithoutLatest(front, track, k), last)

\* the tracks of the entries and of the paths of the last run
BumpTracks ==
    {run.last.before[i].track : i \in 1..Len(run.last.before)}
        \cup {Track_new(run.last.fpaths[i]) : i \in 1..Len(run.last.fpaths)}

\* the last run removed entries, and the run before it pushed every one of
\* the same paths, as often, and wrote the file
BumpedBack ==
    /\ run.phase = "plrare" /\ call.op = "bump" /\ ret.ok
    /\ run.last.n < 0
    /\ run.pushed.n = 0 - run.last.n
    /\ run.pushed.fpaths = run.last.fpaths

\* the entries left when, of each track of a set, the latest entries are
\* taken away, as many as the paths name it times |n|
RECURSIVE WithoutBumped(_, _)
WithoutBumped(ents, todo) ==
    IF todo = {} THEN ents
    ELSE LET track == CHOOSE x \in todo : TRUE
         IN WithoutBumped(
                WithoutLatest(ents, track, Named(run.last.fpaths, track) * (0 - run.last.n)),
                todo \ {track})

GenCount(fpath) == run.counts[fpath]

\* generate has returned Ok in strict mode
StrictDone ==
    run.phase = "gen" /\ run.done /\ call.op = "generate" /\ call.strict /\ ret.ok

\* C36: in strict mode, without --reverse the picks are in non-decreasing
\* order of play count and no pick has a greater play count than a track
\* left unpicked; with --reverse the order is non-increasing and no pick has
\* a smaller play count than a track left unpicked
C36_StrictPicksRankedByPlaycount ==
    StrictDone =>
        LET unpicked == Range(run.library) \ Range(run.picks)
            Ranked(x, y) == IF call.reverse THEN x >= y ELSE x <= y
        IN /\ \A i, j \in 1..Len(run.picks) :
                 i < j => Ranked(GenCount(run.picks[i]), GenCount(run.picks[j]))
           /\ \A i \in 1..Len(run.picks) : \A fpath \in unpicked :
                 Ranked(GenCount(run.picks[i]), GenCount(fpath))

\* two tracks of different play counts are picked, and a track of yet
\* another play count is left
C36_Witness ==
    /\ StrictDone
    /\ Len(run.picks) = 2
    /\ GenCount(run.picks[1]) # GenCount(run.picks[2])
    /\ \E fpath \in Range(run.library) \ Range(run.picks) :
          GenCount(fpath) \notin {GenCount(run.picks[1]), GenCount(run.picks[2])}

\* generate has returned
GenDone == run.phase = "gen" /\ run.done /\ call.op = "generate"

\* the duration of every track of the library is known or can be measured
GenMeasurable ==
    \A fpath \in Range(run.library) :
        track_duration(track_counts(run.library, playcounts).track_durations, fpath).ok

\* the durations of the tracks of the library, added up
GenTotal ==
    LET durations == track_counts(run.library, playcounts).track_durations
        RECURSIVE Sum(_)
        Sum(k) == IF k > Len(run.library) THEN [secs |-> 0, nanos |-> 0]
                  ELSE duration_add(track_duration(durations, run.library[k]).val, Sum(k + 1))
    IN Sum(1)

\* the library holds fewer tracks than asked for, or less than the duration
\* asked for
GenRunsOut ==
    IF call.content.number THEN call.content.n > Len(run.library)
    ELSE GenMeasurable /\ duration_lt(GenTotal, call.content.d)

\* C37: in both modes no track is picked twice; when N tracks are asked for
\* and the library holds at least N, and no duration fails to be measured
\* and the file can be written, generate returns Ok with exactly N picks;
\* when the library runs out first, generate returns the error "No tracks
\* left to choose from" and .Rare.m3u stays as it was
C37_DistinctPicksOrNoTracksLeft ==
    GenDone =>
        /\ \A i, j \in 1..Len(run.picks) : run.picks[i] = run.picks[j] => i = j
        /\ (call.content.number /\ call.content.n <= Len(run.library)
               /\ run.err \notin {"write", "Failed to measure the duration"})
              => ret.ok /\ Len(run.picks) = call.content.n
        /\ (GenRunsOut /\ run.err # "Failed to measure the duration")
              => /\ ~ret.ok
                 /\ run.err = "No tracks left to choose from"
                 /\ file = run.before

\* the same, for a library that holds a track
GenHoldsWithTracks == run.library # <<>> => C37_DistinctPicksOrNoTracksLeft

\* the same, for the strict mode
GenHoldsWhenStrict == (GenDone /\ call.strict) => C37_DistinctPicksOrNoTracksLeft

====
